---- MODULE Spec2Model ----
(***************************************************************************)
(* Checkpointed batch-translation pipeline of epub_translator.             *)
(*                                                                         *)
(* Four specifications share this module:                                  *)
(*   SpecStore   - the CheckpointManager driven by an arbitrary caller     *)
(*   SpecCache   - DeepseekTranslator caches and the dispatcher cache      *)
(*   SpecDivider - TextDivider (optimize / group) and the batch info       *)
(*   Spec        - translate_prepared_content over a prepared workdir,     *)
(*                 with worker threads, interruption and resumption        *)
(*                                                                         *)
(* Strings are modelled as sequences of one-character strings where the    *)
(* code looks inside them (SpecDivider) and as atoms with a length         *)
(* (CharLen) where the code only stores, compares and measures them.       *)
(* Floating point progress values are modelled as exact rationals.         *)
(***************************************************************************)
EXTENDS Integers, Sequences, FiniteSets, TLC

VARIABLES
    \* ---- the working directory (survives the process) ----
    ckpt,               \* checkpoint/status.json: [exists, state]
    statusFile,         \* checkpoint/batches/batch_<key>_status.json per batch
    translatedFile,     \* html_items/<item>/batches/batch_NNN/translated.txt
    cacheFile,          \* translation_cache.json: [exists, cache]
    \* ---- the running process ----
    pc,                 \* position of the main thread
    runs,               \* number of processes launched so far
    phase,              \* --phase of the process: "translate" or "all"
    force,              \* force_restart
    state,              \* CheckpointManager.state
    loaded,             \* check_existing_checkpoint() returned (True, True)
    translation_cache,  \* EPUBProcessor.translation_cache
    translator_cache,   \* DeepseekTranslator.translation_cache
    api_enabled,        \* DeepseekTranslator.api_enabled
    counters,           \* EPUBProcessor.total_chars / translated_chars / ...
    nextSubmit,         \* index of the submit loop over batch_files
    submitted,          \* futures: batches handed to the executor in this run
    collected,          \* futures whose result the main thread has consumed
    completed_count,    \* completed_count of the result loop
    processed,          \* processed_item_batches
    wpc,                \* position of the worker of each batch
    wlocal,             \* locals of _translate_prepared_batch per batch
    \* ---- observation (history) ----
    apiCalls,           \* external requests that carried each text
    startStatus,        \* statusFile when the current process started
    startFiles,         \* translatedFile when the current process started
    startPrepared,      \* the process started on a prepared working directory
    prev,               \* how the previous process ended
    lastOp,             \* the last operation performed
    lastReq,            \* the texts of the last request
    lastResult,         \* what the last request returned
    served,             \* texts for which the API has returned a response
    \* ---- TextDivider / extract_and_prepare_content ----
    dpc, segments, max_segment_length, batch_size, optimized, batches,
    segment_indices,
    \* ---- CheckpointManager and its working directory in detail ----
    local_processing,   \* state["phases"]["local_processing"]: step flags
    source_file_hash,   \* state["source_file_hash"]
    workfiles,          \* <workdir>/batches and the item batch directories
    inputHash,          \* the MD5 of the input file as it is now
    failing,            \* the file whose writes fail at present, if any
    ops,                \* operations performed so far
    \* ---- _extract_translatable_segments ----
    dom,                \* the item: its id and its parsed document
    \* ---- translate_prepared_content over a book of several items ----
    book,                    \* the documents of the input EPUB
    batch_status,            \* translation_completed of each batch status file
    translated_txt,          \* batch_NNN/translated.txt exists
    translated_html,         \* html_items/<item>/translated.html
    futures,                 \* the submitted workers and their results
    processed_item_batches,  \* batch ids to reassemble, per item
    results,                 \* the translated items built so far
    translated_book,         \* the book written to output_path
    \* ---- translate_epub ----
    completed_items,         \* state["phases"]["translation"]["completed_items"]
    item_completed,          \* batch_info["completed"] of each item
    \* ---- save_checkpoint called from several threads ----
    tpc,                     \* position of the main thread (0) and of each worker
    buffer,                  \* what each thread has serialized for status.json
    status_json,             \* the content of checkpoint/status.json, chunk by chunk
    \* ---- the parallel branch of _translate_item_parallel ----
    bstate,                  \* where the _translate_batch call of each batch is
    yielded,                 \* the futures that as_completed has yielded
    entries_completed,       \* the entries of batch_info marked completed
    \* ---- the thread pools of translate_epub and translate_prepared_content ----
    pmode,                   \* the function that runs the translation
    nbatches,                \* the number of batches of each item
    istate,                  \* where the worker of each item is
    iqueued,                 \* batches of the item submitted and not yet started
    irunning,                \* batches of the item being translated
    \* ---- the rate limiter of DeepseekTranslator._make_api_request ----
    clock,                   \* time.time(), in seconds
    last_request_time,       \* self.last_request_time
    rpc,                     \* where each calling thread is in _make_api_request
    wake_at,                 \* when the sleep of each thread ends
    attempt_no,              \* the attempt of the retry loop each thread is in
    prev_start,              \* when the request before the latest one started
    last_start,              \* when the latest request started
    \* ---- the statistics of one run of translate_prepared_content ----
    sbook,                   \* the prepared book
    sdone,                   \* the batches whose status was translation_completed before the run
    shtml,                   \* the items whose translated.html exists before the run
    sfut,                    \* the future of each batch
    sprocessed,              \* processed_item_batches
    srebuilt,                \* the items the rebuild loop has handled
    translated_segments,     \* self.translated_segments
    spc,                     \* where translate_prepared_content is
    \* ---- the rebuild of one item from its translated batches ----
    rdoc,                    \* the text nodes of the original item, in document order
    rfiles,                  \* translated.txt of each batch
    rorder,                  \* processed_item_batches of the item, in completion order
    rpending,                \* the batches whose worker is running
    rbuilt,                  \* the item was rebuilt
    rres,                    \* the text nodes of the rebuilt item
    \* ---- the external calls made for the texts of one batch ----
    max_retries,             \* self.max_retries of the translator
    rn,                      \* the number of texts of the batch
    rstage,                  \* where _translate_prepared_batch is
    rattempt,                \* attempt of the retry loop of _make_api_request
    rpos,                    \* the text the fallback loop is at
    attempts,                \* external call attempts that carried each text
    all_failed,              \* every call that carried the text failed
    output,                  \* what the batch gives for each text
    \* ---- step 4 of extract_and_prepare_content: the statistics of the segments ----
    pbook,                   \* the character lengths of the segments of each item
    pitem,                   \* the item the loop is at
    pseg,                    \* segments of that item _extract_translatable_segments has appended
    total_chars,             \* self.total_chars
    total_segments,          \* self.total_segments
    segments_sum,            \* the local total_segments of extract_and_prepare_content
    persisted,               \* the statistics update_translation_phase has saved
    \* ---- SpecGiveUp: the texts the dispatcher gave up ----
    gave_up,                 \* texts whose batch call and individual calls all failed, on record in translation_cache
    gave_up_saved,           \* those on record in translation_cache.json
    \* ---- SpecRequest: one call of _make_api_request or _make_api_request_async ----
    req_mode,                \* sync or async
    req_pc,                  \* position of the call
    req_attempt,             \* attempt of the retry loop
    req_max_retries,         \* self.max_retries
    req_answers,             \* what the API answered to the attempts of the call
    req_result               \* what the call returned

diskVars == <<ckpt, statusFile, translatedFile, cacheFile>>
procVars == <<pc, runs, phase, force, loaded, translation_cache,
              translator_cache, api_enabled, counters, nextSubmit, submitted,
              collected, completed_count, processed, wpc, wlocal>>
histVars == <<apiCalls, startStatus, startFiles, startPrepared, prev, lastOp,
              lastReq, lastResult,
              served>>
divVars  == <<dpc, segments, max_segment_length, batch_size, optimized,
              batches, segment_indices>>
ckVars   == <<local_processing, source_file_hash, workfiles, inputHash,
              failing>>
reVars   == <<book, batch_status, translated_txt, translated_html, futures,
              processed_item_batches, results, translated_book>>
teVars   == <<completed_items, item_completed>>
raceVars == <<tpc, buffer, status_json>>
poolVars == <<bstate, yielded, entries_completed>>
nestVars == <<pmode, nbatches, istate, iqueued, irunning>>
rateVars == <<clock, last_request_time, rpc, wake_at, attempt_no, prev_start, last_start>>
statVars == <<sbook, sdone, shtml, sfut, sprocessed, srebuilt, translated_segments, spc>>
rebVars == <<rdoc, rfiles, rorder, rpending, rbuilt, rres>>
retryVars == <<max_retries, rn, rstage, rattempt, rpos, attempts, all_failed, output>>
prepVars == <<pbook, pitem, pseg, total_chars, total_segments, segments_sum, persisted>>
giveVars == <<gave_up, gave_up_saved>>
reqVars == <<req_mode, req_pc, req_attempt, req_max_retries, req_answers, req_result>>
lateVars == <<raceVars, poolVars, nestVars, rateVars, statVars, rebVars, retryVars, prepVars, giveVars, reqVars>>
extVars  == <<ckVars, ops, dom, reVars, teVars, lateVars>>
vars == <<diskVars, procVars, state, histVars, divVars, extVars>>

(***************************************************************************)
(* Bounds of the model.                                                    *)
(***************************************************************************)
NBatches == 2       \* batches of the prepared book
MaxRuns  == 2       \* processes launched one after the other
MaxCount == 2       \* largest counter a caller passes to update_progress
MaxBatchLen == 2    \* texts in one request of SpecCache
MaxCalls == 2       \* external requests per text in SpecCache
MaxSegments == 3    \* extracted segments of one item in SpecDivider
MaxBatchSize == 2   \* largest batch_size in SpecDivider
MaxSegLen == 6      \* largest max_segment_length in SpecDivider
MaxOps == 4         \* operations in one behaviour of SpecCheckpoint
MaxDepth == 2       \* elements between <body> and the text in SpecExtract
MaxItemBatches == 2 \* batch ids 0..MaxItemBatches-1 in SpecReassembly
MaxWorkers == 2     \* max_workers of the thread pools

Batches == 1..NBatches

(***************************************************************************)
(* Exact rationals for the progress percentage.                            *)
(***************************************************************************)
RECURSIVE Gcd(_, _)
Gcd(a, b) == IF b = 0 THEN a ELSE Gcd(b, a % b)

Rat(n, d) == LET g == Gcd(n, d) IN [num |-> n \div g, den |-> d \div g]
RatLeq(p, q) == p.num * q.den <= q.num * p.den
RatInt(n) == [num |-> n, den |-> 1]

(***************************************************************************)
(* CheckpointManager.state                                                 *)
(***************************************************************************)
Absent == -1        \* a key that the dictionary does not hold

InitialState ==
    [ translation_preparation_completed |-> FALSE,
      terminology_completed   |-> FALSE,
      preprocessing_completed |-> FALSE,
      items_total             |-> Absent,
      items_processed         |-> 0,
      translation_completed   |-> FALSE,
      translated_chars        |-> 0,
      total_chars             |-> 0,
      translated_segments     |-> 0,
      batches_total           |-> 0,
      batches_completed       |-> 0,
      completed_batches       |-> <<>>,
      postprocessing_completed |-> FALSE,
      total_progress          |-> RatInt(0) ]

\* weights of _calculate_total_progress, in percent
WeightTerminology    == 5
WeightPreprocessing  == 5
WeightTranslation    == 85
WeightPostprocessing == 5
FullProgress         == 100

\* the share of a phase: 1 when completed, done/total when total > 0, else 0
PhaseShare(completed, done, total) ==
    IF completed THEN [num |-> 1, den |-> 1]
    ELSE IF total > 0 THEN [num |-> done, den |-> total]
    ELSE [num |-> 0, den |-> 1]

Flag(b) == IF b THEN 1 ELSE 0

\* min(100.0, progress * 100) without the cap
UncappedProgress(s) ==
    LET it == IF s.items_total = Absent THEN 1 ELSE s.items_total
        p  == PhaseShare(s.preprocessing_completed, s.items_processed, it)
        t  == PhaseShare(s.translation_completed, s.translated_chars,
                         s.total_chars)
        d  == p.den * t.den
        n  == WeightTerminology * Flag(s.terminology_completed) * d
              + WeightPreprocessing * p.num * t.den
              + WeightTranslation * t.num * p.den
              + WeightPostprocessing * Flag(s.postprocessing_completed) * d
    IN  Rat(n, d)

\* (mutant) the weighted sum without min(100.0, ...)
CalculateTotalProgressNoCap(s) == UncappedProgress(s)

CalculateTotalProgress(s) ==
    LET r == UncappedProgress(s)
    IN  IF RatLeq(RatInt(FullProgress), r) THEN RatInt(FullProgress) ELSE r

\* save_checkpoint: json.dump of the whole state into status.json
SaveCheckpoint(s) == [exists |-> TRUE, readable |-> TRUE, state |-> s]

\* update_progress(phase, **kwargs): merge, recompute, persist
WithProgress(s) == [s EXCEPT !.total_progress = CalculateTotalProgress(s)]

\* a keyword argument that was not passed keeps the stored value
Arg(new, old) == IF new = Absent THEN old ELSE new

UpdateTerminologyPhase(s, completed) ==
    WithProgress([s EXCEPT !.terminology_completed = completed])

UpdatePreprocessingPhase(s, completed, total, done) ==
    WithProgress([s EXCEPT !.preprocessing_completed = completed,
                           !.items_total = total,
                           !.items_processed = done])

\* update_translation_phase(completed=False, **kwargs): completed is always
\* written, the counters only when passed
UpdateTranslationPhase(s, completed, tchars, total, tsegs, btotal, bdone) ==
    WithProgress([s EXCEPT !.translation_completed = completed,
                           !.translated_chars = Arg(tchars, @),
                           !.total_chars = Arg(total, @),
                           !.translated_segments = Arg(tsegs, @),
                           !.batches_total = Arg(btotal, @),
                           !.batches_completed = Arg(bdone, @)])

UpdatePostprocessingPhase(s, completed) ==
    WithProgress([s EXCEPT !.postprocessing_completed = completed])

InSeq(x, q) == \E i \in 1..Len(q) : q[i] = x

\* the in-memory part of save_batch_status
NoteBatchStatus(s, b, completed) ==
    IF completed /\ ~InSeq(b, s.completed_batches)
    THEN [s EXCEPT !.completed_batches = Append(@, b),
                   !.batches_completed = Len(s.completed_batches) + 1]
    ELSE s

\* clear_checkpoint: total_progress = 0.0 and phase["completed"] = False
ClearedState(s) ==
    [s EXCEPT !.total_progress = RatInt(0),
              !.terminology_completed = FALSE,
              !.preprocessing_completed = FALSE,
              !.translation_completed = FALSE,
              !.postprocessing_completed = FALSE]

NoFile == [exists |-> FALSE, texts |-> <<>>]
NoCkpt == [exists |-> FALSE, readable |-> FALSE, state |-> InitialState]
\* status.json opened with 'w' and not, or not completely, written
TornCkpt == [exists |-> TRUE, readable |-> FALSE, state |-> InitialState]
NoCache == [exists |-> FALSE, cache |-> <<>>]

(***************************************************************************)
(* Texts.  Source texts and translations are atoms; Translation(t) is the  *)
(* text the API returns for t, Placeholder the content _make_api_request   *)
(* returns while the API is disabled, NoneText Python's None.              *)
(***************************************************************************)
Blank == " "                      \* a text with text.strip() == ""
SourceTexts == {"a", "b", "c"}
Placeholder == "API NOT ENABLED YET"
NoneText == "<None>"

Translation(t) ==
    CASE t = "a" -> "A"
      [] t = "b" -> "Bb"
      [] t = "c" -> "C"
      [] OTHER   -> t

Texts == SourceTexts \cup {Blank}

\* len(text) of the atoms
CharLen(t) ==
    CASE t \in {"a", "b", "c", "A", "C", Blank} -> 1
      [] t = "Bb" -> 2
      [] t = Placeholder -> 3
      [] OTHER -> 0

IsBlank(t) == t = Blank

RECURSIVE SumChars(_)
SumChars(ts) ==
    IF ts = <<>> THEN 0
    ELSE (IF Head(ts) = NoneText THEN 0 ELSE CharLen(Head(ts)))
         + SumChars(Tail(ts))

(***************************************************************************)
(* Dictionaries (the two translation caches).                              *)
(***************************************************************************)
Put(d, k, v) == [x \in (DOMAIN d) \cup {k} |-> IF x = k THEN v ELSE d[x]]

\* (mutant) a cache fill that leaves out a text that came back unchanged
RECURSIVE FillCacheSkipOriginal(_, _, _, _)
FillCacheSkipOriginal(d, keys, vals, i) ==
    IF i > Len(keys) \/ i > Len(vals) THEN d
    ELSE FillCacheSkipOriginal(IF vals[i] = keys[i] THEN d
                               ELSE Put(d, keys[i], vals[i]),
                               keys, vals, i + 1)

\* for i, text in enumerate(keys): if i < len(vals): d[text] = vals[i]
RECURSIVE FillCache(_, _, _, _)
FillCache(d, keys, vals, i) ==
    IF i > Len(keys) \/ i > Len(vals) THEN d
    ELSE FillCache(Put(d, keys[i], vals[i]), keys, vals, i + 1)

\* the number of positions j <= i of ts whose text misses the cache c
Rank(ts, i, c) == Cardinality({j \in 1..i : ts[j] \notin DOMAIN c})

(***************************************************************************)
(* DeepseekTranslator                                                      *)
(***************************************************************************)
ApiOutcomes == {"ok", "short", "bad", "raise"}
TextOutcomes == {"ok", "bad", "raise"}

\* what the API does for the texts of the fallback loop, which runs only
\* when the batch request raised
FallbackOutcomes(o, n) ==
    IF o = "raise" THEN [1..n -> TextOutcomes] ELSE {[i \in 1..n |-> "ok"]}

\* while the API is disabled no request is sent and nothing can go wrong
ApiChoices(enabled) == IF enabled THEN ApiOutcomes ELSE {"ok"}
TextChoices(enabled) == IF enabled THEN TextOutcomes ELSE {"ok"}

\* _translate_batch_texts for a request that did not raise: the response is
\* split at the separator, padded with the original texts or truncated
ApiBatchResult(texts, outcome, enabled) ==
    LET n == Len(texts)
    IN  IF ~enabled
        THEN [i \in 1..n |-> IF i = 1 THEN Placeholder ELSE texts[i]]
        ELSE CASE outcome = "ok" -> [i \in 1..n |-> Translation(texts[i])]
               [] outcome = "short" ->
                    [i \in 1..n |-> IF i < n \/ n = 1
                                    THEN Translation(texts[i]) ELSE texts[i]]
               [] OTHER -> texts

\* _translate_single_text for a request that did not raise
ApiTextResult(text, outcome, enabled) ==
    IF ~enabled THEN Placeholder
    ELSE IF outcome = "ok" THEN Translation(text) ELSE text

\* the texts translate_batch sends: neither blank nor cached
TranslatorMisses(cache, texts) ==
    SelectSeq(texts, LAMBDA t : ~IsBlank(t) /\ t \notin DOMAIN cache)

\* (mutant) translate_batch that does not store what it obtained
TranslateBatchNoStore(cache, texts, outcome, enabled) ==
    LET todo == TranslatorMisses(cache, texts)
        bt   == ApiBatchResult(todo, outcome, enabled)
        pos(i) == Cardinality({j \in 1..i : ~IsBlank(texts[j])
                                            /\ texts[j] \notin DOMAIN cache})
    IN  IF enabled /\ outcome = "raise" /\ todo # <<>>
        THEN [raised |-> TRUE, result |-> <<>>, cache |-> cache,
              request |-> todo]
        ELSE [raised |-> FALSE,
              result |-> [i \in 1..Len(texts) |->
                            IF IsBlank(texts[i]) THEN texts[i]
                            ELSE IF texts[i] \in DOMAIN cache
                                 THEN cache[texts[i]]
                                 ELSE bt[pos(i)]],
              cache |-> cache,
              request |-> IF enabled THEN todo ELSE <<>>]

\* DeepseekTranslator.translate_batch: [raised, result, cache, request]
\* where request holds the texts of the external request, if one was made
TranslateBatch(cache, texts, outcome, enabled) ==
    LET todo == TranslatorMisses(cache, texts)
        bt   == ApiBatchResult(todo, outcome, enabled)
        pos(i) == Cardinality({j \in 1..i : ~IsBlank(texts[j])
                                            /\ texts[j] \notin DOMAIN cache})
    IN  IF todo = <<>>
        THEN [raised |-> FALSE,
              result |-> [i \in 1..Len(texts) |->
                            IF IsBlank(texts[i]) THEN texts[i]
                            ELSE cache[texts[i]]],
              cache |-> cache, request |-> <<>>]
        ELSE IF enabled /\ outcome = "raise"
        THEN [raised |-> TRUE, result |-> <<>>, cache |-> cache,
              request |-> todo]
        ELSE [raised |-> FALSE,
              result |-> [i \in 1..Len(texts) |->
                            IF IsBlank(texts[i]) THEN texts[i]
                            ELSE IF texts[i] \in DOMAIN cache
                                 THEN cache[texts[i]]
                                 ELSE bt[pos(i)]],
              cache |-> FillCache(cache, todo, bt, 1),
              request |-> IF enabled THEN todo ELSE <<>>]

\* DeepseekTranslator.translate_text: [raised, result, cache, request]
TranslateText(cache, text, outcome, enabled) ==
    IF IsBlank(text)
    THEN [raised |-> FALSE, result |-> text, cache |-> cache,
          request |-> <<>>]
    ELSE IF text \in DOMAIN cache
    THEN [raised |-> FALSE, result |-> cache[text], cache |-> cache,
          request |-> <<>>]
    ELSE IF enabled /\ outcome = "raise"
    THEN [raised |-> TRUE, result |-> text, cache |-> cache,
          request |-> <<text>>]
    ELSE LET r == ApiTextResult(text, outcome, enabled)
         IN  [raised |-> FALSE, result |-> r, cache |-> Put(cache, text, r),
              request |-> IF enabled THEN <<text>> ELSE <<>>]

(***************************************************************************)
(* The dispatcher: the cache logic shared by _translate_prepared_batch and *)
(* _translate_batch.                                                       *)
(***************************************************************************)
\* translations_to_do: the texts that miss EPUBProcessor.translation_cache
TranslationsToDo(pcache, texts) ==
    SelectSeq(texts, LAMBDA t : t \notin DOMAIN pcache)

\* cached_translations: position -> cached value, read at the cache check
CachedTranslations(pcache, texts) ==
    [i \in {j \in 1..Len(texts) : texts[j] \in DOMAIN pcache} |->
        pcache[texts[i]]]

\* (mutant) a fallback loop that gives a text up when translate_text raises
RECURSIVE FallbackLoopDropFailed(_, _, _, _, _)
FallbackLoopDropFailed(cache, texts, outcomes, enabled, i) ==
    IF i > Len(texts)
    THEN [result |-> <<>>, cache |-> cache, requests |-> <<>>]
    ELSE LET one  == TranslateText(cache, texts[i], outcomes[i], enabled)
             rest == FallbackLoopDropFailed(one.cache, texts, outcomes,
                                            enabled, i + 1)
         IN  [result |-> (IF one.raised THEN <<>> ELSE <<one.result>>)
                         \o rest.result,
              cache |-> rest.cache,
              requests |-> one.request \o rest.requests]

\* the fallback loop: translate_text per text, the original text when it
\* raises; outcomes[i] is what the API does for the i-th text.
\* [result, cache, requests]
RECURSIVE FallbackLoop(_, _, _, _, _)
FallbackLoop(cache, texts, outcomes, enabled, i) ==
    IF i > Len(texts)
    THEN [result |-> <<>>, cache |-> cache, requests |-> <<>>]
    ELSE LET one  == TranslateText(cache, texts[i], outcomes[i], enabled)
             rest == FallbackLoop(one.cache, texts, outcomes, enabled, i + 1)
         IN  [result |-> <<one.result>> \o rest.result,
              cache |-> rest.cache,
              requests |-> one.request \o rest.requests]

\* all_translated_texts: cached values and new translations by position,
\* None where the translator returned too few texts
CombineTranslations(texts, cached, translated) ==
    [i \in 1..Len(texts) |->
        IF i \in DOMAIN cached THEN cached[i]
        ELSE LET k == Cardinality({j \in 1..i : j \notin DOMAIN cached})
             IN  IF k <= Len(translated) THEN translated[k] ELSE NoneText]

(***************************************************************************)
(* Values of the variables a specification does not use.                   *)
(***************************************************************************)
EmptyMap == <<>>                 \* a dictionary without keys
NoCounters == [total_chars |-> 0, total_segments |-> 0,
               translated_chars |-> 0, translated_segments |-> 0]
NoLocal == [todo |-> <<>>, cached |-> <<>>, request |-> <<>>,
            translated |-> <<>>, all |-> <<>>]

DiskUnused ==
    /\ statusFile = [b \in Batches |-> "none"]
    /\ translatedFile = [b \in Batches |-> NoFile]
    /\ cacheFile = NoCache

ProcUnused ==
    /\ pc = "unused" /\ runs = 0 /\ phase = "translate" /\ force = FALSE
    /\ loaded = FALSE
    /\ translation_cache = EmptyMap /\ translator_cache = EmptyMap
    /\ api_enabled = FALSE /\ counters = NoCounters
    /\ nextSubmit = 1 /\ submitted = {} /\ collected = {}
    /\ completed_count = 0 /\ processed = {}
    /\ wpc = [b \in Batches |-> "none"]
    /\ wlocal = [b \in Batches |-> NoLocal]

HistUnused ==
    /\ apiCalls = [t \in Texts |-> 0]
    /\ startStatus = [b \in Batches |-> "none"]
    /\ startFiles = [b \in Batches |-> NoFile]
    /\ startPrepared = FALSE /\ prev = "none"
    /\ lastOp = "none" /\ lastReq = <<>> /\ lastResult = <<>>
    /\ served = {}

DivUnused ==
    /\ dpc = "unused" /\ segments = <<>> /\ max_segment_length = 0
    /\ batch_size = 0 /\ optimized = <<>> /\ batches = <<>>
    /\ segment_indices = <<>>

CkUnused ==
    /\ local_processing = <<>> /\ source_file_hash = "unused"
    /\ workfiles = <<>> /\ inputHash = "unused" /\ failing = "none"
    /\ ops = 0

DomUnused == dom = <<>>

ReUnused ==
    /\ book = <<>> /\ batch_status = <<>> /\ translated_txt = <<>>
    /\ translated_html = <<>> /\ futures = <<>>
    /\ processed_item_batches = <<>> /\ results = <<>>
    /\ translated_book = <<>>

TeUnused == completed_items = <<>> /\ item_completed = <<>>

RaceUnused == tpc = <<>> /\ buffer = <<>> /\ status_json = <<>>
PoolUnused == bstate = <<>> /\ yielded = <<>> /\ entries_completed = <<>>
NestUnused == pmode = <<>> /\ nbatches = <<>> /\ istate = <<>> /\ iqueued = <<>> /\ irunning = <<>>
RateUnused == clock = <<>> /\ last_request_time = <<>> /\ rpc = <<>> /\ wake_at = <<>> /\ attempt_no = <<>> /\ prev_start = <<>> /\ last_start = <<>>
StatUnused == sbook = <<>> /\ sdone = <<>> /\ shtml = <<>> /\ sfut = <<>> /\ sprocessed = <<>> /\ srebuilt = <<>> /\ translated_segments = <<>> /\ spc = <<>>
RebUnused == rdoc = <<>> /\ rfiles = <<>> /\ rorder = <<>> /\ rpending = <<>> /\ rbuilt = <<>> /\ rres = <<>>
RetryUnused == max_retries = <<>> /\ rn = <<>> /\ rstage = <<>> /\ rattempt = <<>> /\ rpos = <<>> /\ attempts = <<>> /\ all_failed = <<>> /\ output = <<>>
PrepUnused == pbook = <<>> /\ pitem = <<>> /\ pseg = <<>> /\ total_chars = <<>> /\ total_segments = <<>> /\ segments_sum = <<>> /\ persisted = <<>>
GiveUnused == gave_up = <<>> /\ gave_up_saved = <<>>
ReqUnused == req_mode = <<>> /\ req_pc = <<>> /\ req_attempt = <<>> /\ req_max_retries = <<>> /\ req_answers = <<>> /\ req_result = <<>>
LateUnused == RaceUnused /\ PoolUnused /\ NestUnused /\ RateUnused /\ StatUnused /\ RebUnused /\ RetryUnused /\ PrepUnused /\ GiveUnused /\ ReqUnused
raceRest == <<ckVars, ops, dom, reVars, teVars, poolVars, nestVars, rateVars, statVars, rebVars, retryVars, prepVars, giveVars, reqVars>>
RaceRestUnused == CkUnused /\ DomUnused /\ ReUnused /\ TeUnused /\ PoolUnused /\ NestUnused /\ RateUnused /\ StatUnused /\ RebUnused /\ RetryUnused /\ PrepUnused /\ GiveUnused /\ ReqUnused
poolRest == <<ckVars, ops, dom, reVars, teVars, raceVars, nestVars, rateVars, statVars, rebVars, retryVars, prepVars, giveVars, reqVars>>
PoolRestUnused == CkUnused /\ DomUnused /\ ReUnused /\ TeUnused /\ RaceUnused /\ NestUnused /\ RateUnused /\ StatUnused /\ RebUnused /\ RetryUnused /\ PrepUnused /\ GiveUnused /\ ReqUnused
nestRest == <<ckVars, ops, dom, reVars, teVars, raceVars, poolVars, rateVars, statVars, rebVars, retryVars, prepVars, giveVars, reqVars>>
NestRestUnused == CkUnused /\ DomUnused /\ ReUnused /\ TeUnused /\ RaceUnused /\ PoolUnused /\ RateUnused /\ StatUnused /\ RebUnused /\ RetryUnused /\ PrepUnused /\ GiveUnused /\ ReqUnused
rateRest == <<ckVars, ops, dom, reVars, teVars, raceVars, poolVars, nestVars, statVars, rebVars, retryVars, prepVars, giveVars, reqVars>>
RateRestUnused == CkUnused /\ DomUnused /\ ReUnused /\ TeUnused /\ RaceUnused /\ PoolUnused /\ NestUnused /\ StatUnused /\ RebUnused /\ RetryUnused /\ PrepUnused /\ GiveUnused /\ ReqUnused
statRest == <<ckVars, ops, dom, reVars, teVars, raceVars, poolVars, nestVars, rateVars, rebVars, retryVars, prepVars, giveVars, reqVars>>
StatRestUnused == CkUnused /\ DomUnused /\ ReUnused /\ TeUnused /\ RaceUnused /\ PoolUnused /\ NestUnused /\ RateUnused /\ RebUnused /\ RetryUnused /\ PrepUnused /\ GiveUnused /\ ReqUnused
rebRest == <<ckVars, ops, dom, reVars, teVars, raceVars, poolVars, nestVars, rateVars, statVars, retryVars, prepVars, giveVars, reqVars>>
RebRestUnused == CkUnused /\ DomUnused /\ ReUnused /\ TeUnused /\ RaceUnused /\ PoolUnused /\ NestUnused /\ RateUnused /\ StatUnused /\ RetryUnused /\ PrepUnused /\ GiveUnused /\ ReqUnused
retryRest == <<ckVars, ops, dom, reVars, teVars, raceVars, poolVars, nestVars, rateVars, statVars, rebVars, prepVars, giveVars, reqVars>>
RetryRestUnused == CkUnused /\ DomUnused /\ ReUnused /\ TeUnused /\ RaceUnused /\ PoolUnused /\ NestUnused /\ RateUnused /\ StatUnused /\ RebUnused /\ PrepUnused /\ GiveUnused /\ ReqUnused
prepRest == <<ckVars, ops, dom, reVars, teVars, raceVars, poolVars, nestVars, rateVars, statVars, rebVars, retryVars, giveVars, reqVars>>
PrepRestUnused == CkUnused /\ DomUnused /\ ReUnused /\ TeUnused /\ RaceUnused /\ PoolUnused /\ NestUnused /\ RateUnused /\ StatUnused /\ RebUnused /\ RetryUnused /\ GiveUnused /\ ReqUnused
giveRest == <<ckVars, ops, dom, reVars, teVars, raceVars, poolVars, nestVars, rateVars, statVars, rebVars, retryVars, prepVars, reqVars>>
GiveRestUnused == CkUnused /\ DomUnused /\ ReUnused /\ TeUnused /\ RaceUnused /\ PoolUnused /\ NestUnused /\ RateUnused /\ StatUnused /\ RebUnused /\ RetryUnused /\ PrepUnused /\ ReqUnused
reqRest == <<ckVars, ops, dom, reVars, teVars, raceVars, poolVars, nestVars, rateVars, statVars, rebVars, retryVars, prepVars, giveVars>>
ReqRestUnused == CkUnused /\ DomUnused /\ ReUnused /\ TeUnused /\ RaceUnused /\ PoolUnused /\ NestUnused /\ RateUnused /\ StatUnused /\ RebUnused /\ RetryUnused /\ PrepUnused /\ GiveUnused

ExtUnused == CkUnused /\ DomUnused /\ ReUnused /\ TeUnused /\ LateUnused

(***************************************************************************)
(* SpecStore: the CheckpointManager under an arbitrary caller that passes  *)
(* non-negative counters.                                                  *)
(***************************************************************************)
Counts == 0..MaxCount
OptCounts == Counts \cup {Absent}

InitStore ==
    /\ ckpt = NoCkpt
    /\ state = InitialState
    /\ DiskUnused /\ ProcUnused /\ HistUnused /\ DivUnused /\ ExtUnused

StoreFrame ==
    UNCHANGED <<statusFile, translatedFile, cacheFile, procVars, histVars,
                divVars, extVars>>

StoreUpdateTerminology ==
    \E c \in BOOLEAN :
        /\ state' = UpdateTerminologyPhase(state, c)
        /\ ckpt' = SaveCheckpoint(state')
        /\ StoreFrame

StoreUpdatePreprocessing ==
    \E c \in BOOLEAN, total \in Counts, done \in Counts :
        /\ state' = UpdatePreprocessingPhase(state, c, total, done)
        /\ ckpt' = SaveCheckpoint(state')
        /\ StoreFrame

StoreUpdateTranslation ==
    \E c \in BOOLEAN, tchars \in OptCounts, total \in OptCounts :
        /\ state' = UpdateTranslationPhase(state, c, tchars, total, Absent,
                                           Absent, Absent)
        /\ ckpt' = SaveCheckpoint(state')
        /\ StoreFrame

StoreUpdatePostprocessing ==
    \E c \in BOOLEAN :
        /\ state' = UpdatePostprocessingPhase(state, c)
        /\ ckpt' = SaveCheckpoint(state')
        /\ StoreFrame

StoreClearCheckpoint ==
    /\ state' = ClearedState(state)
    /\ ckpt' = NoCkpt
    /\ StoreFrame

NextStore ==
    \/ StoreUpdateTerminology
    \/ StoreUpdatePreprocessing
    \/ StoreUpdateTranslation
    \/ StoreUpdatePostprocessing
    \/ StoreClearCheckpoint

SpecStore == InitStore /\ [][NextStore]_vars

\* C9: after any sequence of update_progress calls with non-negative
\* counters, total_progress lies in [0, 100].
ProgressInRange ==
    /\ RatLeq(RatInt(0), state.total_progress)
    /\ RatLeq(state.total_progress, RatInt(FullProgress))
    /\ ckpt.exists =>
         /\ RatLeq(RatInt(0), ckpt.state.total_progress)
         /\ RatLeq(ckpt.state.total_progress, RatInt(FullProgress))

\* an update left more translated characters than total characters (the
\* uncapped weighted sum exceeds 100) and the stored progress is 100
ProgressCapReached ==
    /\ ~state.translation_completed
    /\ state.total_chars > 0
    /\ state.translated_chars > state.total_chars
    /\ state.postprocessing_completed
    /\ state.total_progress = RatInt(FullProgress)
    /\ ckpt.exists /\ ckpt.state = state

(***************************************************************************)
(* SpecCache: requests to the translator and to the dispatcher, one after  *)
(* the other, with every pattern of API failures.                          *)
(***************************************************************************)
SeqsUpTo(S, n) == UNION {[1..k -> S] : k \in 1..n}
\* the texts the callers of SpecCache ask for
CacheTexts == {"a", "b", Blank}
Range(q) == {q[i] : i \in 1..Len(q)}

\* one more external request for every text that a request of reqs carries
CountCalls(calls, reqs) ==
    [t \in Texts |->
        calls[t] + Cardinality({k \in 1..Len(reqs) : t \in Range(reqs[k])})]

\* _translate_batch / _translate_prepared_batch from the cache check to
\* all_translated_texts, run without interleaving:
\* [all, pcache, tcache, requests]
DispatchBatch(pcache, tcache, texts, outcome, outcomes, enabled) ==
    LET todo   == TranslationsToDo(pcache, texts)
        cached == CachedTranslations(pcache, texts)
        r      == TranslateBatch(tcache, todo, outcome, enabled)
        fb     == FallbackLoop(tcache, todo, outcomes, enabled, 1)
        translated == IF todo = <<>> THEN <<>>
                      ELSE IF r.raised THEN fb.result ELSE r.result
    IN  [all |-> CombineTranslations(texts, cached, translated),
         pcache |-> IF todo = <<>> THEN pcache
                    ELSE FillCache(pcache, todo, translated, 1),
         tcache |-> IF todo = <<>> THEN tcache
                    ELSE IF r.raised THEN fb.cache ELSE r.cache,
         requests |-> IF todo = <<>> THEN <<>>
                      ELSE IF r.raised
                      THEN <<r.request>>
                           \o [k \in 1..Len(fb.requests) |-> <<fb.requests[k]>>]
                      ELSE IF r.request = <<>> THEN <<>> ELSE <<r.request>>]

InitCache ==
    /\ ckpt = NoCkpt /\ state = InitialState
    /\ DiskUnused /\ ProcUnused /\ HistUnused /\ DivUnused /\ ExtUnused

CacheFrame ==
    UNCHANGED <<diskVars, state, divVars, extVars, pc, runs, phase, force,
                loaded, counters, nextSubmit, submitted, collected, completed_count,
                processed, wpc, wlocal, startStatus, startFiles,
                startPrepared, prev>>

WithinCalls(calls) == \A t \in Texts : calls[t] <= MaxCalls

CacheEnableApi ==
    /\ ~api_enabled
    /\ api_enabled' = TRUE
    /\ lastOp' = "enable_api" /\ lastReq' = <<>> /\ lastResult' = <<>>
    /\ UNCHANGED <<translation_cache, translator_cache, apiCalls, served>>
    /\ CacheFrame

CacheTranslateText ==
    \E t \in CacheTexts, o \in TextChoices(api_enabled) :
        LET r == TranslateText(translator_cache, t, o, api_enabled)
            reqs == IF r.request = <<>> THEN <<>> ELSE <<r.request>>
        IN  /\ apiCalls' = CountCalls(apiCalls, reqs)
            /\ WithinCalls(apiCalls')
            /\ translator_cache' = r.cache
            /\ served' = IF r.raised THEN served
                         ELSE served \cup Range(r.request)
            /\ lastOp' = "translate_text"
            /\ lastReq' = <<t>>
            /\ lastResult' = IF r.raised THEN <<>> ELSE <<r.result>>
            /\ UNCHANGED <<translation_cache, api_enabled>>
            /\ CacheFrame

CacheTranslateBatch ==
    \E ts \in SeqsUpTo(CacheTexts, MaxBatchLen),
       o \in ApiChoices(api_enabled) :
        LET r == TranslateBatch(translator_cache, ts, o, api_enabled)
            reqs == IF r.request = <<>> THEN <<>> ELSE <<r.request>>
        IN  /\ apiCalls' = CountCalls(apiCalls, reqs)
            /\ WithinCalls(apiCalls')
            /\ translator_cache' = r.cache
            /\ served' = IF r.raised THEN served
                         ELSE served \cup Range(r.request)
            /\ lastOp' = "translate_batch"
            /\ lastReq' = ts
            /\ lastResult' = r.result
            /\ UNCHANGED <<translation_cache, api_enabled>>
            /\ CacheFrame


CacheDispatch ==
    \E ts \in SeqsUpTo(CacheTexts, MaxBatchLen),
       o \in ApiChoices(api_enabled) :
      \E os \in FallbackOutcomes(o,
                    Len(TranslationsToDo(translation_cache, ts))) :
        LET d == DispatchBatch(translation_cache, translator_cache, ts, o,
                               os, api_enabled)
        IN  /\ apiCalls' = CountCalls(apiCalls, d.requests)
            /\ WithinCalls(apiCalls')
            /\ translator_cache' = d.tcache
            /\ translation_cache' = d.pcache
            /\ served' = served \cup
                 {t \in Range(ts) : /\ t \in DOMAIN d.tcache
                                    /\ t \notin DOMAIN translator_cache
                                    /\ api_enabled}
            /\ lastOp' = "dispatch"
            /\ lastReq' = ts
            /\ lastResult' = d.all
            /\ UNCHANGED api_enabled
            /\ CacheFrame

NextCache ==
    \/ CacheEnableApi
    \/ CacheTranslateText
    \/ CacheTranslateBatch
    \/ CacheDispatch

SpecCache == InitCache /\ [][NextCache]_vars

\* the value the cache that the operation consults holds for t
ConsultedValue(op, t) ==
    IF op = "dispatch" /\ t \in DOMAIN translation_cache
    THEN translation_cache[t]
    ELSE translator_cache[t]

\* C3: once the API has returned a translation for a text, a later request
\* for that text (translate_text, translate_batch or a dispatcher batch)
\* sends no external request that carries it and, when it returns, returns
\* the value of the cache it consults.
CacheIdempotence ==
    [][\A i \in 1..Len(lastReq') :
          LET t == lastReq'[i]
          IN  t \in served =>
                /\ apiCalls'[t] = apiCalls[t]
                /\ i <= Len(lastResult') =>
                     lastResult'[i] = ConsultedValue(lastOp', t)]_vars

\* a text was translated through an external request, and a later dispatcher
\* batch that asked for it again was answered without a further request
CachedTextRequestedAgain ==
    /\ lastOp = "dispatch"
    /\ \E i \in 1..Len(lastReq) :
          /\ lastReq[i] \in served
          /\ apiCalls[lastReq[i]] = 1
          /\ lastResult[i] = Translation(lastReq[i])
          /\ lastReq[i] \in DOMAIN translator_cache
    /\ \E t \in Texts : apiCalls[t] = MaxCalls

(***************************************************************************)
(* TextDivider.  A text is a sequence of characters.                       *)
(***************************************************************************)
Whitespace == {" ", "\n", "\t"}
SentenceEnd == {".", "!", "?"}
TrailingPunctuation == {".", ",", ";", ":", "?", "!"}
ShortLine == 40
NoneSeq == <<NoneText>>          \* the text of a segment whose text is None

MinOf(S) == CHOOSE x \in S : \A y \in S : x <= y
MaxOf(S) == CHOOSE x \in S : \A y \in S : y <= x

\* str.strip()
RECURSIVE LStrip(_)
LStrip(t) == IF t # <<>> /\ Head(t) \in Whitespace THEN LStrip(Tail(t)) ELSE t
RECURSIVE RStrip(_)
RStrip(t) ==
    IF t # <<>> /\ t[Len(t)] \in Whitespace
    THEN RStrip(SubSeq(t, 1, Len(t) - 1)) ELSE t
Strip(t) == RStrip(LStrip(t))

\* re.split(r'([.!?])\s+', text) with each captured mark joined back to
\* the piece before it
RECURSIVE SentencePieces(_)
SentencePieces(text) ==
    LET hits == {i \in 1..(Len(text) - 1) :
                    text[i] \in SentenceEnd /\ text[i + 1] \in Whitespace}
    IN  IF hits = {} THEN <<text>>
        ELSE LET i == MinOf(hits)
             IN  <<SubSeq(text, 1, i)>>
                 \o SentencePieces(LStrip(SubSeq(text, i + 1, Len(text))))

\* split_into_sentences, regex-based (the punkt tokenizer is not installed)
SplitIntoSentences(text) ==
    IF Strip(text) = <<>> THEN <<>>
    ELSE SelectSeq(SentencePieces(text), LAMBDA p : Strip(p) # <<>>)

\* the end of the match of \n\s*\n that starts at i, or 0
BreakEnd(text, i) ==
    LET ends == {j \in (i + 1)..Len(text) :
                    /\ text[j] = "\n"
                    /\ \A k \in (i + 1)..(j - 1) : text[k] \in Whitespace}
    IN  IF text[i] = "\n" /\ ends # {} THEN MaxOf(ends) ELSE 0

\* re.split(r'\n\s*\n', text)
RECURSIVE ParagraphPieces(_)
ParagraphPieces(text) ==
    LET starts == {i \in 1..Len(text) : BreakEnd(text, i) # 0}
    IN  IF starts = {} THEN <<text>>
        ELSE LET i == MinOf(starts)
             IN  <<SubSeq(text, 1, i - 1)>>
                 \o ParagraphPieces(SubSeq(text, BreakEnd(text, i) + 1,
                                           Len(text)))

\* detect_paragraphs
DetectParagraphs(text) ==
    IF Strip(text) = <<>> THEN <<>>
    ELSE LET ps   == ParagraphPieces(text)
             kept == SelectSeq(ps, LAMBDA p : Strip(p) # <<>>)
         IN  [k \in 1..Len(kept) |-> Strip(kept[k])]

\* the loop of merge_sentences_into_paragraphs from sentence i on
RECURSIVE MergeLoop(_, _, _, _, _)
MergeLoop(sentences, max_length, i, paragraphs, current) ==
    IF i > Len(sentences)
    THEN IF current # <<>> THEN Append(paragraphs, current) ELSE paragraphs
    ELSE LET sentence == sentences[i]
         IN  IF Len(current) + Len(sentence) > max_length /\ current # <<>>
             THEN MergeLoop(sentences, max_length, i + 1,
                            Append(paragraphs, current), sentence)
             ELSE LET spaced ==
                        IF current # <<>>
                           /\ current[Len(current)] \notin Whitespace
                        THEN Append(current, " ") ELSE current
                  IN  MergeLoop(sentences, max_length, i + 1, paragraphs,
                                spaced \o sentence)

MergeSentencesIntoParagraphs(sentences, max_length) ==
    MergeLoop(sentences, max_length, 1, <<>>, <<>>)

RECURSIVE Concat(_)
Concat(qs) == IF qs = <<>> THEN <<>> ELSE Head(qs) \o Concat(Tail(qs))

\* split_long_segment
SplitLongSegment(text, max_length) ==
    IF Len(text) <= max_length THEN <<text>>
    ELSE LET paragraphs == DetectParagraphs(text)
         IN  IF Len(paragraphs) > 1
             THEN Concat([k \in 1..Len(paragraphs) |->
                     IF Len(paragraphs[k]) > max_length
                     THEN MergeSentencesIntoParagraphs(
                              SplitIntoSentences(paragraphs[k]), max_length)
                     ELSE <<paragraphs[k]>>])
             ELSE MergeSentencesIntoParagraphs(SplitIntoSentences(text),
                                               max_length)

\* '\n\n' in text
HasBlankLine(text) ==
    \E i \in 1..(Len(text) - 1) : text[i] = "\n" /\ text[i + 1] = "\n"

\* the texts optimize_segments makes of one segment's text
OptimizeText(text, maxlen) ==
    IF HasBlankLine(text) \/ Len(text) > maxlen
    THEN LET paragraphs == DetectParagraphs(text)
         IN  IF Len(paragraphs) > 1
             THEN Concat([k \in 1..Len(paragraphs) |->
                     IF Len(paragraphs[k]) > maxlen
                     THEN SplitLongSegment(paragraphs[k], maxlen)
                     ELSE <<paragraphs[k]>>])
             ELSE IF Len(text) > maxlen
             THEN SplitLongSegment(text, maxlen)
             ELSE <<text>>
    ELSE <<text>>

\* optimize_segments: every chunk keeps the element of its segment
OptimizeSegments(segs, maxlen) ==
    Concat([k \in 1..Len(segs) |->
        LET chunks == OptimizeText(segs[k].text, maxlen)
        IN  [c \in 1..Len(chunks) |->
                [element |-> segs[k].element, text |-> chunks[c]]]])

\* the keywords of the heading pattern
HeadingWords ==
    { <<"C","h","a","p","t","e","r">>, <<"S","e","c","t","i","o","n">>,
      <<"P","a","r","t">>, <<"A","p","p","e","n","d","i","x">>,
      <<"F","i","g","u","r","e">>, <<"T","a","b","l","e">>,
      <<"N","o","t","e">>, <<"W","a","r","n","i","n","g">> }

IsWordChar(c) == c \notin Whitespace \cup TrailingPunctuation

\* re.match(r'^(Chapter|...|Warning)\b', text.strip())
IsHeading(text) ==
    LET t == Strip(text)
    IN  \E w \in HeadingWords :
            /\ Len(t) >= Len(w)
            /\ SubSeq(t, 1, Len(w)) = w
            /\ Len(t) = Len(w) \/ ~IsWordChar(t[Len(w) + 1])

\* is_new_paragraph
IsNewParagraph(text) ==
    LET t == Strip(text)
    IN  IF text # <<>> /\ t # <<>> /\ IsHeading(text) THEN TRUE
        ELSE /\ text # <<>>
             /\ Len(t) < ShortLine
             /\ ~(t # <<>> /\ t[Len(t)] \in TrailingPunctuation)

\* (mutant) the loop without the final "add the last batch"
RECURSIVE GroupLoopNoLast(_, _, _, _, _)
GroupLoopNoLast(segs, bs, i, done, current) ==
    IF i > Len(segs) THEN done
    ELSE IF segs[i].text = NoneSeq
    THEN GroupLoopNoLast(segs, bs, i + 1, done, current)
    ELSE LET added == Append(current, segs[i])
         IN  IF Len(added) >= bs
             THEN GroupLoopNoLast(segs, bs, i + 1, Append(done, added), <<>>)
             ELSE GroupLoopNoLast(segs, bs, i + 1, done, added)

\* (mutant) a loop whose new-paragraph test closes a batch that has room for
\* one more segment only
RECURSIVE GroupLoopParagraphFirst(_, _, _, _, _)
GroupLoopParagraphFirst(segs, bs, i, done, current) ==
    IF i > Len(segs)
    THEN IF current # <<>> THEN Append(done, current) ELSE done
    ELSE IF segs[i].text = NoneSeq
    THEN GroupLoopParagraphFirst(segs, bs, i + 1, done, current)
    ELSE LET flush == /\ IsNewParagraph(segs[i].text)
                      /\ Len(current) > 0
                      /\ Len(current) + 1 >= bs
             done1 == IF flush THEN Append(done, current) ELSE done
             added == Append(IF flush THEN <<>> ELSE current, segs[i])
         IN  IF Len(added) >= bs
             THEN GroupLoopParagraphFirst(segs, bs, i + 1,
                                          Append(done1, added), <<>>)
             ELSE GroupLoopParagraphFirst(segs, bs, i + 1, done1, added)

\* the while loop of group_into_content_aware_batches from segment i on
RECURSIVE GroupLoop(_, _, _, _, _)
GroupLoop(segs, bs, i, done, current) ==
    IF i > Len(segs)
    THEN IF current # <<>> THEN Append(done, current) ELSE done
    ELSE IF segs[i].text = NoneSeq
    THEN GroupLoop(segs, bs, i + 1, done, current)
    ELSE LET flush == /\ IsNewParagraph(segs[i].text)
                      /\ Len(current) > 0
                      /\ Len(current) + 1 > bs
             done1 == IF flush THEN Append(done, current) ELSE done
             added == Append(IF flush THEN <<>> ELSE current, segs[i])
         IN  IF Len(added) >= bs
             THEN GroupLoop(segs, bs, i + 1, Append(done1, added), <<>>)
             ELSE GroupLoop(segs, bs, i + 1, done1, added)

GroupIntoContentAwareBatches(segs, bs) == GroupLoop(segs, bs, 1, <<>>, <<>>)

\* list(range(i * batch_size, min((i + 1) * batch_size, n))), i from 0
SegmentIndices(i, bs, n) ==
    LET first == i * bs
        stop  == IF (i + 1) * bs < n THEN (i + 1) * bs ELSE n
    IN  IF stop > first THEN [k \in 1..(stop - first) |-> first + k - 1]
        ELSE <<>>

(***************************************************************************)
(* SpecDivider: the segments of one item are extracted, then either        *)
(* grouped directly or prepared as extract_and_prepare_content does.       *)
(***************************************************************************)
SegTexts ==
    { <<"a">>,                                \* a short line
      <<"a", ".">>,                           \* one sentence
      <<"a", ".", " ", "a", ".">>,            \* two sentences
      <<"a", "\n", "\n", "a">>,               \* two paragraphs
      <<"a", "a", "a", "a", "a", "a", "a">>,  \* nothing to split at
      <<"N", "o", "t", "e", " ", "a">> }      \* a heading

InitDivider ==
    /\ ckpt = NoCkpt /\ state = InitialState
    /\ DiskUnused /\ ProcUnused /\ HistUnused /\ ExtUnused
    /\ dpc = "build" /\ segments = <<>> /\ max_segment_length = 0
    /\ batch_size = 0 /\ optimized = <<>> /\ batches = <<>>
    /\ segment_indices = <<>>

DivFrame == UNCHANGED <<diskVars, procVars, state, histVars, extVars>>

\* one more extracted segment; its element is its position in the list
DivAddSegment ==
    /\ dpc = "build"
    /\ Len(segments) < MaxSegments
    /\ \E t \in SegTexts \cup {NoneSeq} :
          segments' = Append(segments,
                             [element |-> Len(segments), text |-> t])
    /\ UNCHANGED <<dpc, max_segment_length, batch_size, optimized, batches,
                   segment_indices>>
    /\ DivFrame

\* group_into_content_aware_batches(segments, batch_size)
DivGroup ==
    /\ dpc = "build"
    /\ \E bs \in 0..MaxBatchSize :
          /\ batch_size' = bs
          /\ batches' = GroupIntoContentAwareBatches(segments, bs)
    /\ dpc' = "grouped"
    /\ UNCHANGED <<segments, max_segment_length, optimized, segment_indices>>
    /\ DivFrame

\* extract_and_prepare_content for the item: optimize, group, record the
\* segment_indices of every batch
DivPrepare ==
    /\ dpc = "build"
    /\ \A k \in 1..Len(segments) : segments[k].text # NoneSeq
    /\ \E bs \in 1..MaxBatchSize, maxlen \in 1..MaxSegLen :
          /\ batch_size' = bs
          /\ max_segment_length' = maxlen
          /\ optimized' = OptimizeSegments(segments, maxlen)
          /\ batches' = GroupIntoContentAwareBatches(optimized', bs)
          /\ segment_indices' =
                [b \in 1..Len(batches') |->
                    SegmentIndices(b - 1, bs, Len(segments))]
    /\ dpc' = "prepared"
    /\ UNCHANGED segments
    /\ DivFrame

NextDivider ==
    \/ DivAddSegment
    \/ DivGroup
    \/ DivPrepare

SpecDivider == InitDivider /\ [][NextDivider]_vars

\* the segments whose text is not None
WithText(segs) == SelectSeq(segs, LAMBDA g : g.text # NoneSeq)

Unsplittable(text) ==
    Len(SplitIntoSentences(text)) <= 1 /\ Len(DetectParagraphs(text)) <= 1

\* C5: every text optimize_segments returns is at most max_segment_length
\* long, unless it is a single sentence without a paragraph break.
MaxLengthRespected ==
    dpc = "prepared" =>
        \A k \in 1..Len(optimized) :
            \/ Len(optimized[k].text) <= max_segment_length
            \/ Unsplittable(optimized[k].text)

\* C6: the segment_indices recorded for a batch are the positions, in the
\* extracted segment list, of the segments its texts come from.
SegmentIndicesMatchBatches ==
    dpc = "prepared" =>
        \A b \in 1..Len(batches) :
            segment_indices[b] =
                [k \in 1..Len(batches[b]) |-> batches[b][k].element]

(***************************************************************************)
(* Spec: processes over a prepared working directory.  A process runs      *)
(* main.py with --phase translate or --phase all, with or without --force; *)
(* it can be interrupted by a signal or killed at any point, and another   *)
(* process is started afterwards.                                          *)
(***************************************************************************)
\* original.txt of batch b
BatchTexts(b) == IF b % 2 = 1 THEN <<"a", "b">> ELSE <<"b">>

RECURSIVE CharsOfBatches(_)
CharsOfBatches(n) ==
    IF n = 0 THEN 0 ELSE SumChars(BatchTexts(n)) + CharsOfBatches(n - 1)

\* what step 4 of extract_and_prepare_content adds to self.total_chars:
\* every segment is added by _extract_translatable_segments and once more
\* by the loop over the items
PreparedChars == 2 * CharsOfBatches(NBatches)

\* what extract_and_prepare_content leaves in the checkpoint
PreparedState(total) ==
    [UpdateTranslationPhase(InitialState, FALSE, 0, total, 0, NBatches, 0)
        EXCEPT !.translation_preparation_completed = TRUE]

Truncated == [exists |-> TRUE, texts |-> <<>>]
Written(texts) == [exists |-> TRUE, texts |-> texts]

FreshProcess ==
    /\ loaded' = FALSE
    /\ translation_cache' = EmptyMap /\ translator_cache' = EmptyMap
    /\ api_enabled' = FALSE /\ counters' = NoCounters
    /\ nextSubmit' = 1 /\ submitted' = {} /\ collected' = {}
    /\ completed_count' = 0 /\ processed' = {}
    /\ wpc' = [b \in Batches |-> "none"]
    /\ wlocal' = [b \in Batches |-> NoLocal]

Init ==
    /\ ckpt = SaveCheckpoint(PreparedState(PreparedChars))
    /\ statusFile = [b \in Batches |-> "false"]
    /\ translatedFile = [b \in Batches |-> NoFile]
    /\ cacheFile = NoCache
    /\ state = InitialState
    /\ ProcUnused /\ HistUnused /\ DivUnused /\ ExtUnused

Observed ==
    UNCHANGED <<apiCalls, lastReq, lastResult, served, divVars, extVars>>

\* main.py: a new process, a new EPUBProcessor
StartProcess ==
    /\ pc \in {"unused", "idle"}
    /\ runs < MaxRuns
    /\ runs' = runs + 1
    /\ \E ph \in {"translate", "all"}, f \in BOOLEAN :
          /\ phase' = ph /\ force' = f
          /\ pc' = IF ph = "all" THEN "extract" ELSE "open"
    /\ state' = InitialState
    /\ FreshProcess
    /\ startStatus' = statusFile /\ startFiles' = translatedFile
    /\ startPrepared' = (/\ ckpt.readable
                         /\ ckpt.state.translation_preparation_completed)
    /\ lastOp' = "start"
    /\ UNCHANGED <<diskVars, prev>>
    /\ Observed

\* CheckpointManager(...) followed, unless force_restart, by
\* check_existing_checkpoint and clear_checkpoint for an invalid checkpoint:
\* [state, loaded, cleared]
OpenCheckpoint(f, file) ==
    IF ~f /\ file.exists /\ file.readable
    THEN [state |-> file.state, loaded |-> TRUE, cleared |-> FALSE]
    ELSE IF ~f /\ file.exists
    THEN [state |-> ClearedState(InitialState), loaded |-> FALSE,
          cleared |-> TRUE]
    ELSE [state |-> InitialState, loaded |-> FALSE, cleared |-> FALSE]

\* extract_and_prepare_content (--phase all): steps that the checkpoint
\* records as completed are skipped, otherwise the batches are divided again
\* and their statuses saved with translation_completed false
ExtractAndPrepare ==
    /\ pc = "extract"
    /\ LET o      == OpenCheckpoint(force, ckpt)
           redo   == ~o.state.translation_preparation_completed
           total  == IF redo
                     THEN (IF o.loaded THEN o.state.total_chars ELSE 0)
                          + PreparedChars
                     ELSE o.state.total_chars
           st     == IF redo
                     THEN [UpdateTranslationPhase(o.state, FALSE, 0, total, 0,
                                                  NBatches, 0)
                             EXCEPT !.translation_preparation_completed = TRUE]
                     ELSE o.state
       IN  /\ state' = st
           /\ ckpt' = SaveCheckpoint(st)
           /\ statusFile' = IF redo THEN [b \in Batches |-> "false"]
                            ELSE statusFile
           /\ counters' =
                [total_chars |-> total,
                 total_segments |-> 0,
                 translated_chars |->
                    IF o.loaded THEN o.state.translated_chars ELSE 0,
                 translated_segments |->
                    IF o.loaded THEN o.state.translated_segments ELSE 0]
           /\ loaded' = o.loaded
    /\ api_enabled' = TRUE
    /\ pc' = "open"
    /\ lastOp' = "extract"
    /\ UNCHANGED <<translatedFile, cacheFile, runs, phase, force,
                   translation_cache, translator_cache, nextSubmit, submitted,
                   collected, completed_count, processed, wpc, wlocal,
                   startStatus, startFiles, startPrepared, prev>>
    /\ Observed

\* translate_prepared_content up to the check of
\* translation_preparation_completed
OpenWorkdir ==
    /\ pc = "open"
    /\ LET o == OpenCheckpoint(force, ckpt)
       IN  /\ state' = o.state
           /\ loaded' = o.loaded
           /\ ckpt' = IF o.cleared THEN NoCkpt ELSE ckpt
           /\ statusFile' = IF o.cleared THEN [b \in Batches |-> "none"]
                            ELSE statusFile
           /\ translation_cache' =
                IF o.loaded /\ cacheFile.exists THEN cacheFile.cache
                ELSE translation_cache
           /\ lastOp' = IF o.cleared THEN "clear"
                        ELSE IF o.loaded THEN "load" ELSE "open"
           /\ pc' = IF o.state.translation_preparation_completed
                    THEN "progress0" ELSE "returned"
    /\ UNCHANGED <<translatedFile, cacheFile, runs, phase, force,
                   translator_cache, api_enabled, counters, nextSubmit,
                   submitted, collected, completed_count, processed, wpc,
                   wlocal, startStatus, startFiles, startPrepared, prev>>
    /\ Observed

MainFrame ==
    UNCHANGED <<statusFile, translatedFile, runs, phase, force, loaded,
                translation_cache, translator_cache, api_enabled, counters,
                wpc, wlocal, startStatus, startFiles, startPrepared, prev>>

\* update_translation_progress(translated_segments=0, ..., translated_chars=0,
\* total_chars=self.total_chars)
ReportStart ==
    /\ pc = "progress0"
    /\ state' = UpdateTranslationPhase(state, FALSE, 0, counters.total_chars,
                                       0, Absent, Absent)
    /\ ckpt' = SaveCheckpoint(state')
    /\ pc' = "batchtotal"
    /\ lastOp' = "update"
    /\ UNCHANGED <<cacheFile, nextSubmit, submitted, collected,
                   completed_count, processed>>
    /\ MainFrame /\ Observed

\* update_translation_phase(batches_total=len(batch_files),
\* batches_completed=0)
ReportBatchTotal ==
    /\ pc = "batchtotal"
    /\ state' = UpdateTranslationPhase(state, FALSE, Absent, Absent, Absent,
                                       NBatches, 0)
    /\ ckpt' = SaveCheckpoint(state')
    /\ pc' = "submit"
    /\ lastOp' = "update"
    /\ UNCHANGED <<cacheFile, nextSubmit, submitted, collected,
                   completed_count, processed>>
    /\ MainFrame /\ Observed

\* the condition under which the submit loop skips a batch
SkipBatch(f, status) == ~f /\ status = "true"

\* one round of the submit loop
SubmitBatch ==
    /\ pc = "submit"
    /\ LET b == nextSubmit
       IN  IF SkipBatch(force, statusFile[b])
           THEN /\ processed' = processed \cup {b}
                /\ UNCHANGED <<submitted, wpc>>
           ELSE /\ submitted' = submitted \cup {b}
                /\ wpc' = [wpc EXCEPT ![b] = "start"]
                /\ UNCHANGED processed
    /\ nextSubmit' = nextSubmit + 1
    /\ pc' = IF nextSubmit = NBatches THEN "collect" ELSE "submit"
    /\ lastOp' = "submit"
    /\ UNCHANGED <<diskVars, state, runs, phase, force, loaded,
                   translation_cache, translator_cache, api_enabled, counters,
                   collected, completed_count, wlocal, startStatus,
                   startFiles, startPrepared, prev>>
    /\ Observed

\* (mutant) the status is saved before the translated file is written
WorkerNextStatusFirst(at) ==
    CASE at = "open"   -> "status"
      [] at = "status" -> "write"
      [] at = "write"  -> "count"
      [] at = "count"  -> "done"

\* the statement order of _translate_prepared_batch after the translation
WorkerNext(at) ==
    CASE at = "open"   -> "write"
      [] at = "write"  -> "status"
      [] at = "status" -> "count"
      [] at = "count"  -> "done"

WorkerFrame ==
    UNCHANGED <<pc, runs, phase, force, loaded, api_enabled, nextSubmit,
                submitted, collected, completed_count, processed, startStatus,
                startFiles, startPrepared, prev, lastOp>>

\* the cache check of _translate_prepared_batch
WorkerCheckCache(b) ==
    /\ wpc[b] = "start"
    /\ LET todo == TranslationsToDo(translation_cache, BatchTexts(b))
           cached == CachedTranslations(translation_cache, BatchTexts(b))
       IN  IF todo = <<>>
           THEN /\ wlocal' = [wlocal EXCEPT ![b] =
                     [NoLocal EXCEPT !.all =
                         CombineTranslations(BatchTexts(b), cached, <<>>)]]
                /\ wpc' = [wpc EXCEPT ![b] = "open"]
           ELSE /\ wlocal' = [wlocal EXCEPT ![b] =
                     [NoLocal EXCEPT !.todo = todo, !.cached = cached]]
                /\ wpc' = [wpc EXCEPT ![b] = "translate"]
    /\ UNCHANGED <<diskVars, state, translation_cache, translator_cache,
                   counters>>
    /\ WorkerFrame /\ Observed

\* translate_batch, the fallback loop when it raises, and the cache fill
WorkerTranslate(b) ==
    /\ wpc[b] = "translate"
    /\ \E o \in ApiChoices(api_enabled) :
         \E os \in FallbackOutcomes(o, Len(wlocal[b].todo)) :
            LET todo == wlocal[b].todo
                r  == TranslateBatch(translator_cache, todo, o, api_enabled)
                fb == FallbackLoop(translator_cache, todo, os, api_enabled, 1)
                translated == IF r.raised THEN fb.result ELSE r.result
            IN  /\ translator_cache' = IF r.raised THEN fb.cache ELSE r.cache
                /\ translation_cache' =
                      FillCache(translation_cache, todo, translated, 1)
                /\ wlocal' = [wlocal EXCEPT ![b] =
                      [NoLocal EXCEPT !.all =
                          CombineTranslations(BatchTexts(b), wlocal[b].cached,
                                              translated)]]
    /\ wpc' = [wpc EXCEPT ![b] = "open"]
    /\ UNCHANGED <<diskVars, state, counters>>
    /\ WorkerFrame /\ Observed

\* open(translated_file, 'w'); the join raises on a None and the batch fails
WorkerOpenFile(b) ==
    /\ wpc[b] = "open"
    /\ translatedFile' = [translatedFile EXCEPT ![b] = Truncated]
    /\ wpc' = [wpc EXCEPT ![b] =
                  IF InSeq(NoneText, wlocal[b].all) THEN "failed"
                  ELSE WorkerNext("open")]
    /\ UNCHANGED <<ckpt, statusFile, cacheFile, state, translation_cache,
                   translator_cache, counters, wlocal>>
    /\ WorkerFrame /\ Observed

\* f.write('\n---\n'.join(all_translated_texts)) and the close of the file
WorkerWriteFile(b) ==
    /\ wpc[b] = "write"
    /\ translatedFile' = [translatedFile EXCEPT ![b] = Written(wlocal[b].all)]
    /\ wpc' = [wpc EXCEPT ![b] = WorkerNext("write")]
    /\ UNCHANGED <<ckpt, statusFile, cacheFile, state, translation_cache,
                   translator_cache, counters, wlocal>>
    /\ WorkerFrame /\ Observed

\* save_batch_status(batch_key, {... "translation_completed": True})
WorkerSaveStatus(b) ==
    /\ wpc[b] = "status"
    /\ statusFile' = [statusFile EXCEPT ![b] = "true"]
    /\ state' = NoteBatchStatus(state, b, TRUE)
    /\ ckpt' = SaveCheckpoint(state')
    /\ wpc' = [wpc EXCEPT ![b] = WorkerNext("status")]
    /\ UNCHANGED <<translatedFile, cacheFile, translation_cache,
                   translator_cache, counters, wlocal>>
    /\ WorkerFrame /\ Observed

\* with self.lock: translated_segments += ...; translated_chars += ...
WorkerCount(b) ==
    /\ wpc[b] = "count"
    /\ counters' =
          [counters EXCEPT
              !.translated_segments = @ + Len(BatchTexts(b)),
              !.translated_chars = @ + SumChars(wlocal[b].all)]
    /\ wpc' = [wpc EXCEPT ![b] = WorkerNext("count")]
    /\ wlocal' = [wlocal EXCEPT ![b] = NoLocal]
    /\ UNCHANGED <<diskVars, state, translation_cache, translator_cache>>
    /\ WorkerFrame /\ Observed

\* one round of the result loop over as_completed(futures)
CollectResult ==
    /\ pc = "collect"
    /\ \E b \in submitted \ collected :
          /\ wpc[b] \in {"done", "failed"}
          /\ collected' = collected \cup {b}
          /\ IF wpc[b] = "done"
             THEN /\ processed' = processed \cup {b}
                  /\ completed_count' = completed_count + 1
                  /\ state' = UpdateTranslationPhase(state, FALSE,
                                  counters.translated_chars,
                                  counters.total_chars,
                                  counters.translated_segments,
                                  Absent, completed_count + 1)
                  /\ ckpt' = SaveCheckpoint(state')
                  /\ lastOp' = "update"
             ELSE /\ lastOp' = "collect"
                  /\ UNCHANGED <<processed, completed_count, state, ckpt>>
    /\ UNCHANGED <<pc, cacheFile, nextSubmit, submitted>>
    /\ MainFrame /\ Observed

\* the translation phase is marked completed
MarkTranslated ==
    /\ pc = "collect"
    /\ collected = submitted
    /\ state' = UpdateTranslationPhase(state, TRUE,
                    counters.translated_chars, counters.total_chars,
                    counters.translated_segments, Absent, Absent)
    /\ ckpt' = SaveCheckpoint(state')
    /\ pc' = "postprocess"
    /\ lastOp' = "update"
    /\ UNCHANGED <<cacheFile, nextSubmit, submitted, collected,
                   completed_count, processed>>
    /\ MainFrame /\ Observed

\* update_postprocessing_phase(completed=True), _save_translation_cache
Postprocess ==
    /\ pc = "postprocess"
    /\ state' = UpdatePostprocessingPhase(state, TRUE)
    /\ ckpt' = SaveCheckpoint(state')
    /\ cacheFile' = [exists |-> TRUE, cache |-> translation_cache]
    /\ pc' = "returned"
    /\ lastOp' = "update"
    /\ UNCHANGED <<nextSubmit, submitted, collected, completed_count,
                   processed>>
    /\ MainFrame /\ Observed

InTranslation == {"progress0", "batchtotal", "submit", "collect",
                  "postprocess"}

WorkersAtRest ==
    \A b \in Batches : wpc[b] \in {"none", "done", "failed"}

\* the memory of a process that has ended
ProcessGone ==
    /\ state' = InitialState
    /\ FreshProcess

\* _handle_termination: save_checkpoint, then sys.exit(1); the executor
\* still waits for the batches it was given
Interrupt ==
    /\ pc \in InTranslation
    /\ ckpt' = SaveCheckpoint(state)
    /\ pc' = "exiting"
    /\ lastOp' = "interrupt"
    /\ UNCHANGED <<cacheFile, state, nextSubmit, submitted, collected,
                   completed_count, processed>>
    /\ MainFrame /\ Observed

\* the process ends: it returned, or it exits after an interrupt
ExitProcess ==
    /\ \/ pc = "returned"
       \/ pc = "exiting" /\ WorkersAtRest
    /\ pc' = "idle"
    /\ prev' = IF pc = "exiting" THEN "interrupted" ELSE "returned"
    /\ lastOp' = "exit"
    /\ ProcessGone
    /\ UNCHANGED <<diskVars, runs, phase, force, startStatus, startFiles,
                   startPrepared>>
    /\ Observed

\* the main thread is inside a save of status.json
MainSavesCheckpoint ==
    \/ pc \in {"progress0", "batchtotal", "postprocess"}
    \/ /\ pc = "collect"
       /\ \/ collected = submitted
          \/ \E b \in submitted \ collected : wpc[b] = "done"

\* the process is killed: what each save_batch_status under way had written
\* of its status file, and whether status.json was open for writing
Kill ==
    /\ pc \in InTranslation \cup {"extract", "open", "exiting"}
    /\ LET saving == {b \in Batches : wpc[b] = "status"}
       IN  \E f \in [saving -> {"untouched", "torn", "written"}],
              torn \in BOOLEAN :
              /\ torn => \/ MainSavesCheckpoint
                         \/ \E b \in saving : f[b] = "written"
              /\ statusFile' =
                    [b \in Batches |->
                        IF b \in saving /\ f[b] = "torn" THEN "torn"
                        ELSE IF b \in saving /\ f[b] = "written" THEN "true"
                        ELSE statusFile[b]]
              /\ ckpt' = IF torn THEN TornCkpt ELSE ckpt
    /\ pc' = "idle"
    /\ prev' = IF pc \in InTranslation \cup {"exiting"} THEN "interrupted"
               ELSE "returned"
    /\ lastOp' = "kill"
    /\ ProcessGone
    /\ UNCHANGED <<translatedFile, cacheFile, runs, phase, force,
                   startStatus, startFiles, startPrepared>>
    /\ Observed

Next ==
    \/ StartProcess
    \/ ExtractAndPrepare
    \/ OpenWorkdir
    \/ ReportStart
    \/ ReportBatchTotal
    \/ SubmitBatch
    \/ \E b \in Batches : WorkerCheckCache(b)
    \/ \E b \in Batches : WorkerTranslate(b)
    \/ \E b \in Batches : WorkerOpenFile(b)
    \/ \E b \in Batches : WorkerWriteFile(b)
    \/ \E b \in Batches : WorkerSaveStatus(b)
    \/ \E b \in Batches : WorkerCount(b)
    \/ CollectResult
    \/ MarkTranslated
    \/ Postprocess
    \/ Interrupt
    \/ ExitProcess
    \/ Kill

Spec == Init /\ [][Next]_vars

\* translated.txt of batch b is written, one text for every source text
CompleteFile(b) ==
    /\ translatedFile[b].exists
    /\ Len(translatedFile[b].texts) = Len(BatchTexts(b))
    /\ ~InSeq(NoneText, translatedFile[b].texts)

\* C2: at every state, after a kill at any point too, a batch status file
\* with translation_completed true implies that the batch's translated.txt
\* is completely written, with one text for every source text.
StatusImpliesWrittenFile ==
    \A b \in Batches : statusFile[b] = "true" => CompleteFile(b)

\* the process was killed when one batch had its status saved and the file
\* of another batch was open but not written
KilledBetweenOpenAndWrite ==
    /\ lastOp = "kill"
    /\ \E b \in Batches : statusFile[b] = "true"
    /\ \E b \in Batches : translatedFile[b] = Truncated /\ statusFile[b] # "true"

\* the batches without a completed status when the process started
Incomplete == {b \in Batches : startStatus[b] # "true"}

\* C1: a process without force_restart that follows an interrupted one, N
\* batches having a status with translation_completed true, dispatches
\* exactly the other batches and leaves the translated files of the N alone.
ResumeDispatchesIncomplete ==
    (/\ pc = "returned" /\ ~force /\ prev = "interrupted"
     /\ Incomplete # Batches)
    => /\ submitted = Incomplete
       /\ \A b \in Batches \ Incomplete : translatedFile[b] = startFiles[b]

\* C8: an update of the checkpoint never lowers total_progress, in a resumed
\* run from the value the checkpoint was loaded with.
ProgressNeverDecreases ==
    [][lastOp' = "update" =>
          RatLeq(state.total_progress, state'.total_progress)]_vars

\* C10: translate_prepared_content with force_restart, on a working
\* directory whose preparation is complete, dispatches every batch.
ForcedRestartDispatchesAll ==
    (pc = "returned" /\ force /\ startPrepared) => submitted = Batches

\* what the translator can return for a text, and the text itself
OutputsOf(t) == {Translation(t), Placeholder, t}

\* C7: whatever the collaborator does (short or invalid responses, raising
\* on the batch request and on any of the single requests), the dispatcher
\* yields one output for every source text, in input order: the value its
\* cache held for the text, or else what the translator returned for it or
\* the original text.
GracefulDegradation ==
    [][lastOp' = "dispatch" =>
          /\ Len(lastResult') = Len(lastReq')
          /\ \A i \in 1..Len(lastReq') :
                LET t == lastReq'[i]
                IN  IF t \in DOMAIN translation_cache
                    THEN lastResult'[i] = translation_cache[t]
                    ELSE lastResult'[i] \in OutputsOf(t)]_vars

\* a batch whose request raised and whose single requests partly raised
\* came back with a cached value, a translation and an original text
DegradedBatchAnswered ==
    /\ lastOp = "dispatch"
    /\ Len(lastReq) = MaxBatchLen
    /\ Len(lastResult) = MaxBatchLen
    /\ lastReq[1] # lastReq[2]
    /\ lastResult[1] = Translation(lastReq[1])
    /\ lastResult[2] = lastReq[2]
    /\ lastReq[2] \in SourceTexts
    /\ apiCalls[lastReq[2]] = MaxCalls
    /\ lastReq[2] \notin served

(***************************************************************************)
(* SpecCheckpoint: one CheckpointManager, its files and the directory      *)
(* <workdir>/batches, under an arbitrary caller.  Writes can fail (the     *)
(* file is then left untouched or torn), the input file can change and the *)
(* files under <workdir>/batches can be created and deleted by others.     *)
(***************************************************************************)
Steps == {"parsing_completed", "batch_division_completed"}
UnknownStep == "no_such_step"
NoSteps == [s \in Steps |-> FALSE]
Hashes == {"h1", "h2"}
WriteTargets == {"status.json", "batch_status", "batch_info"}

\* <workdir>/batches: the directory, the standalone batch files of
\* save_batch_standalone, the marker batches_completed.done; and
\* checkpoint/batches/item_<id>_batches.json
WorkfileStates ==
    [batches_dir : {TRUE}, standalone : SUBSET Batches, marker : BOOLEAN,
     batch_info : BOOLEAN]
    \cup [batches_dir : {FALSE}, standalone : {{}}, marker : {FALSE},
          batch_info : BOOLEAN]

\* os.listdir(<workdir>/batches) is empty
NoBatchFiles(wf) == wf.standalone = {} /\ ~wf.marker

\* status.json as json.dump(self.state) leaves it
CkFile(s, lp, h) ==
    [exists |-> TRUE, readable |-> TRUE, state |-> s,
     local_processing |-> lp, hash |-> h]
CkNone ==
    [exists |-> FALSE, readable |-> FALSE, state |-> InitialState,
     local_processing |-> NoSteps, hash |-> "none"]
CkTorn == [CkNone EXCEPT !.exists = TRUE]

\* save_checkpoint: the file after the call; a write that fails leaves the
\* old file or a torn one, and the call returns ~fails
SaveCheckpointFile(old, new, fails, torn) ==
    IF ~fails THEN new ELSE IF torn THEN CkTorn ELSE old

\* (mutant) a load that does not compare the hashes
CheckExistingCheckpointNoHash(file, current_hash, wf) ==
    IF ~file.exists THEN [exists |-> FALSE, valid |-> FALSE]
    ELSE IF ~file.readable THEN [exists |-> TRUE, valid |-> FALSE]
    ELSE IF ~wf.batches_dir THEN [exists |-> TRUE, valid |-> FALSE]
    ELSE IF file.local_processing["batch_division_completed"]
            /\ NoBatchFiles(wf)
    THEN [exists |-> TRUE, valid |-> FALSE]
    ELSE [exists |-> TRUE, valid |-> TRUE]

\* check_existing_checkpoint: (exists, valid); the state is replaced by the
\* file's only when valid
CheckExistingCheckpoint(file, current_hash, wf) ==
    IF ~file.exists THEN [exists |-> FALSE, valid |-> FALSE]
    ELSE IF ~file.readable THEN [exists |-> TRUE, valid |-> FALSE]
    ELSE IF current_hash # file.hash THEN [exists |-> TRUE, valid |-> FALSE]
    ELSE IF ~wf.batches_dir THEN [exists |-> TRUE, valid |-> FALSE]
    ELSE IF file.local_processing["batch_division_completed"]
            /\ NoBatchFiles(wf)
    THEN [exists |-> TRUE, valid |-> FALSE]
    ELSE [exists |-> TRUE, valid |-> TRUE]

\* is_local_processing_step_completed
IsLocalProcessingStepCompleted(step, lp, wf) ==
    IF step = "batch_division_completed" /\ (~wf.batches_dir \/ NoBatchFiles(wf))
    THEN FALSE
    ELSE IF step \in DOMAIN lp THEN lp[step] ELSE FALSE

InitCheckpoint ==
    /\ ckpt = CkNone
    /\ state = InitialState
    /\ local_processing = NoSteps
    /\ source_file_hash = "h1" /\ inputHash = "h1"
    /\ workfiles = [batches_dir |-> TRUE, standalone |-> {}, marker |-> FALSE,
                    batch_info |-> FALSE]
    /\ failing = "none" /\ ops = 0
    /\ DiskUnused /\ ProcUnused /\ HistUnused /\ DivUnused
    /\ DomUnused /\ ReUnused /\ TeUnused /\ LateUnused

CkFrame ==
    UNCHANGED <<translatedFile, cacheFile, procVars, divVars, apiCalls,
                startStatus, startFiles, startPrepared, prev, served,
                dom, reVars, teVars, lateVars>>

\* the call op(args) returned ret; at most MaxOps operations are performed
Returned(op, args, ret) ==
    /\ ops < MaxOps /\ ops' = ops + 1
    /\ lastOp' = op /\ lastReq' = args /\ lastResult' = ret

\* CheckpointManager(input_path, ...): a fresh state, the directories made
CkNewManager ==
    /\ state' = InitialState
    /\ local_processing' = NoSteps
    /\ source_file_hash' = inputHash
    /\ workfiles' = [workfiles EXCEPT !.batches_dir = TRUE]
    /\ Returned("init", <<>>, <<>>)
    /\ UNCHANGED <<ckpt, statusFile, inputHash, failing>>
    /\ CkFrame

CkCheckExisting ==
    /\ LET r == CheckExistingCheckpoint(ckpt, inputHash, workfiles)
       IN  /\ state' = IF r.valid THEN ckpt.state ELSE state
           /\ local_processing' =
                 IF r.valid THEN ckpt.local_processing ELSE local_processing
           /\ source_file_hash' =
                 IF r.valid THEN ckpt.hash ELSE source_file_hash
           /\ Returned("check_existing_checkpoint", <<>>,
                       <<r.exists, r.valid>>)
    /\ UNCHANGED <<ckpt, statusFile, workfiles, inputHash, failing>>
    /\ CkFrame

CkSaveCheckpoint ==
    /\ \E torn \in BOOLEAN :
          ckpt' = SaveCheckpointFile(ckpt,
                     CkFile(state, local_processing, source_file_hash),
                     failing = "status.json", torn)
    /\ Returned("save_checkpoint", <<>>, <<failing # "status.json">>)
    /\ UNCHANGED <<state, statusFile, ckVars>>
    /\ CkFrame

CkUpdateLocalProcessingPhase ==
    /\ \E step \in Steps \cup {UnknownStep}, completed \in BOOLEAN,
          torn \in BOOLEAN :
          IF step \notin Steps
          THEN /\ Returned("update_local_processing_phase", <<step>>,
                           <<FALSE>>)
               /\ UNCHANGED <<ckpt, local_processing>>
          ELSE /\ local_processing' =
                     [local_processing EXCEPT ![step] = completed]
               /\ ckpt' = SaveCheckpointFile(ckpt,
                             CkFile(state, local_processing',
                                    source_file_hash),
                             failing = "status.json", torn)
               /\ Returned("update_local_processing_phase", <<step>>,
                           <<failing # "status.json">>)
    /\ UNCHANGED <<state, statusFile, source_file_hash, workfiles, inputHash,
                   failing>>
    /\ CkFrame

CkUpdateTranslationPhase ==
    /\ \E completed \in BOOLEAN, tchars \in {Absent, 1}, torn \in BOOLEAN :
          /\ state' = UpdateTranslationPhase(state, completed, tchars,
                          IF tchars = Absent THEN Absent ELSE MaxCount,
                          Absent, Absent, Absent)
          /\ ckpt' = SaveCheckpointFile(ckpt,
                        CkFile(state', local_processing, source_file_hash),
                        failing = "status.json", torn)
    /\ Returned("update_translation_phase", <<>>, <<>>)
    /\ UNCHANGED <<statusFile, ckVars>>
    /\ CkFrame

CkSaveBatchStatus ==
    /\ \E b \in Batches, completed \in BOOLEAN, torn \in BOOLEAN :
          IF failing = "batch_status"
          THEN /\ statusFile' = [statusFile EXCEPT ![b] =
                                    IF torn THEN "torn" ELSE @]
               /\ Returned("save_batch_status", <<b>>, <<FALSE>>)
               /\ UNCHANGED <<state, ckpt>>
          ELSE /\ statusFile' = [statusFile EXCEPT ![b] =
                                    IF completed THEN "true" ELSE "false"]
               /\ state' = NoteBatchStatus(state, b, completed)
               /\ ckpt' = SaveCheckpointFile(ckpt,
                             CkFile(state', local_processing,
                                    source_file_hash),
                             failing = "status.json", torn)
               /\ Returned("save_batch_status", <<b>>, <<TRUE>>)
    /\ UNCHANGED ckVars
    /\ CkFrame

CkSaveBatchInfo ==
    /\ workfiles' = [workfiles EXCEPT !.batch_info =
                        IF failing = "batch_info" THEN @ ELSE TRUE]
    /\ Returned("save_batch_info", <<>>, <<failing # "batch_info">>)
    /\ UNCHANGED <<ckpt, statusFile, state, local_processing,
                   source_file_hash, inputHash, failing>>
    /\ CkFrame

\* clear_checkpoint: rmtree(checkpoint_dir), _ensure_directories, reset
CkClearCheckpoint ==
    /\ ckpt' = CkNone
    /\ statusFile' = [b \in Batches |-> "none"]
    /\ workfiles' = [workfiles EXCEPT !.batch_info = FALSE,
                                      !.batches_dir = TRUE]
    /\ state' = ClearedState(state)
    /\ Returned("clear_checkpoint", <<>>, <<TRUE>>)
    /\ UNCHANGED <<local_processing, source_file_hash, inputHash, failing>>
    /\ CkFrame

CkIsStepCompleted ==
    /\ \E step \in Steps \cup {UnknownStep} :
          Returned("is_local_processing_step_completed", <<step>>,
                   <<IsLocalProcessingStepCompleted(step, local_processing,
                                                    workfiles)>>)
    /\ UNCHANGED <<ckpt, statusFile, state, ckVars>>
    /\ CkFrame

\* ContentManager.save_batch_standalone, the marker of the batch division,
\* and deletions by the user
EnvWorkfiles ==
    /\ \E wf \in WorkfileStates :
          /\ wf.batch_info = workfiles.batch_info
          /\ workfiles' = wf
    /\ Returned("files", <<>>, <<>>)
    /\ UNCHANGED <<ckpt, statusFile, state, local_processing,
                   source_file_hash, inputHash, failing>>
    /\ CkFrame

\* the input file is replaced, status.json is damaged, the disk condition
\* changes
EnvDisk ==
    /\ \/ /\ inputHash' \in Hashes \ {inputHash}
          /\ UNCHANGED <<ckpt, failing>>
       \/ /\ ckpt.exists /\ ckpt' = CkTorn
          /\ UNCHANGED <<inputHash, failing>>
       \/ /\ failing' \in (WriteTargets \cup {"none"}) \ {failing}
          /\ UNCHANGED <<ckpt, inputHash>>
    /\ Returned("disk", <<>>, <<>>)
    /\ UNCHANGED <<statusFile, state, local_processing, source_file_hash,
                   workfiles>>
    /\ CkFrame

NextCheckpoint ==
    \/ CkNewManager
    \/ CkCheckExisting
    \/ CkSaveCheckpoint
    \/ CkUpdateLocalProcessingPhase
    \/ CkUpdateTranslationPhase
    \/ CkSaveBatchStatus
    \/ CkSaveBatchInfo
    \/ CkClearCheckpoint
    \/ CkIsStepCompleted
    \/ EnvWorkfiles
    \/ EnvDisk

SpecCheckpoint == InitCheckpoint /\ [][NextCheckpoint]_vars

\* C11: after clear_checkpoint no checkpoint file and no batch status file
\* remains and the state in memory is the initial one: every phase flag and
\* step flag false, the counters 0, completed_batches empty, progress 0.
ClearResetsEverything ==
    [][lastOp' = "clear_checkpoint" =>
          /\ ~ckpt'.exists
          /\ \A b \in Batches : statusFile'[b] = "none"
          /\ state' = InitialState
          /\ local_processing' = NoSteps]_vars

\* C12: is_local_processing_step_completed("batch_division_completed") is
\* true only if the stored flag is true and the batch files of the division
\* are still in the working directory.
DivisionCompletedNeedsBatchFiles ==
    [][(/\ lastOp' = "is_local_processing_step_completed"
        /\ lastReq' = <<"batch_division_completed">>
        /\ lastResult' = <<TRUE>>)
       => /\ local_processing["batch_division_completed"]
          /\ workfiles.standalone = Batches]_vars

\* C13: a status.json that cannot be parsed, or whose hash is not the hash
\* of the input, is reported as (exists, not valid) and the state in memory
\* stays as it was.
InvalidCheckpointNotLoaded ==
    [][(/\ lastOp' = "check_existing_checkpoint"
        /\ ckpt.exists
        /\ (~ckpt.readable \/ ckpt.hash # inputHash))
       => /\ lastResult' = <<TRUE, FALSE>>
          /\ state' = state
          /\ local_processing' = local_processing
          /\ source_file_hash' = source_file_hash]_vars

\* a readable checkpoint of another input was refused by a fresh manager
ChangedInputRefused ==
    /\ lastOp = "check_existing_checkpoint"
    /\ lastResult = <<TRUE, FALSE>>
    /\ ckpt.readable /\ ckpt.hash # inputHash
    /\ ckpt.state # InitialState
    /\ state = InitialState /\ source_file_hash = inputHash

\* C14: a save operation returns false when a write it makes fails.
SaveFailureReported ==
    [][(\/ /\ lastOp' \in {"save_checkpoint", "save_batch_status"}
           /\ failing = "status.json"
        \/ /\ lastOp' = "update_local_processing_phase"
           /\ lastReq'[1] \in Steps
           /\ failing = "status.json"
        \/ /\ lastOp' = "save_batch_status" /\ failing = "batch_status"
        \/ /\ lastOp' = "save_batch_info" /\ failing = "batch_info")
       => lastResult' = <<FALSE>>]_vars

(***************************************************************************)
(* SpecExtract: _extract_translatable_segments on one item.  The document  *)
(* is <body> e1 .. en text </body>: a chain of elements, outermost first,  *)
(* with one text node in the innermost and at most one translatable        *)
(* attribute on one of the elements.  Texts are classes of strings, which  *)
(* is all that should_skip_text distinguishes.                             *)
(***************************************************************************)
\* the tags of the model: a paragraph element, a container element, an
\* inline element, and two of SKIP_TAGS
Tags == {"p", "div", "span", "pre", "code"}
SKIP_TAGS == {"pre", "code"}
paragraph_elements == {"p"}
container_elements == {"div"}

\* "words": prose; "blank": whitespace only; "symbols": matches ^\s*\W+$
TextKinds == {"words", "blank", "symbols"}

ItemIds == { <<"c", "h">>, <<"n", "a", "v">>, <<"i", "n", "d", "e", "x">>,
             <<"A", "I", "n", "d", "e", "x">> }

\* str.lower() on the characters of the ids
LowerChar(c) ==
    CASE c = "A" -> "a" [] c = "I" -> "i" [] OTHER -> c

\* 'index' in item_id.lower()
IsIndexItem(id) ==
    LET low == [k \in 1..Len(id) |-> LowerChar(id[k])]
        word == <<"i", "n", "d", "e", "x">>
    IN  \E k \in 1..Len(low) :
            k + Len(word) - 1 <= Len(low)
            /\ SubSeq(low, k, k + Len(word) - 1) = word

\* should_skip_text: empty, whitespace, or a skip pattern
ShouldSkipText(kind) == kind \in {"blank", "symbols"}

\* the node is in a non-translatable area: its parent or an ancestor of its
\* parent is in SKIP_TAGS; chain[1..n] are the ancestors of the text node
InSkipArea(chain, n) == \E k \in 1..n : chain[k] \in SKIP_TAGS

\* get_parent_paragraph: the innermost ancestor that is a paragraph element,
\* 0 when there is none
ParentParagraph(chain) ==
    LET ks == {k \in 1..Len(chain) : chain[k] \in paragraph_elements}
    IN  IF ks = {} THEN 0 ELSE CHOOSE k \in ks : \A j \in ks : j <= k

\* the paragraph pass: the text node, when it has a paragraph ancestor and
\* is outside the skipped areas
ParagraphPass(d) ==
    IF /\ ~InSkipArea(d.chain, Len(d.chain))
       /\ d.text # "blank"
       /\ ParentParagraph(d.chain) # 0
       /\ ~ShouldSkipText(d.text)
    THEN << [origin |-> "text", at |-> Len(d.chain), attribute |-> "none", text |-> d.text,
             pass |-> "paragraph"] >>
    ELSE <<>>

\* the container pass: the text node, when it is a direct child of a
\* container element outside the skipped areas and was not taken before
ContainerPass(d, taken) ==
    LET n == Len(d.chain)
    IN  IF /\ d.chain[n] \in container_elements
           /\ ~InSkipArea(d.chain, n)
           /\ ~ShouldSkipText(d.text)
           /\ ~taken
        THEN << [origin |-> "text", at |-> Len(d.chain), attribute |-> "none", text |-> d.text,
                 pass |-> "container"] >>
        ELSE <<>>

\* the pass over the remaining text nodes: only the parent's tag is tested
RemainingPass(d, taken) ==
    IF /\ ~taken
       /\ d.chain[Len(d.chain)] \notin SKIP_TAGS
       /\ ~ShouldSkipText(d.text)
    THEN << [origin |-> "text", at |-> Len(d.chain), attribute |-> "none", text |-> d.text,
             pass |-> "remaining"] >>
    ELSE <<>>

\* the attribute pass: every tag of the document, no test of the tag
AttributePass(d) ==
    IF d.attr_at # 0 /\ ~ShouldSkipText(d.attr_text)
    THEN << [origin |-> "element", at |-> d.attr_at, attribute |-> "title",
             text |-> d.attr_text, pass |-> "attribute"] >>
    ELSE <<>>

\* _extract_translatable_segments(soup, item_id)
ExtractTranslatableSegments(d) ==
    IF IsIndexItem(d.item_id) THEN <<>>
    ELSE LET s1 == ParagraphPass(d)
             s2 == ContainerPass(d, s1 # <<>>)
             s3 == RemainingPass(d, s1 # <<>> \/ s2 # <<>>)
         IN  s1 \o s2 \o s3 \o AttributePass(d)

Chains == UNION {[1..n -> Tags] : n \in 1..MaxDepth}

Documents ==
    {d \in [item_id : ItemIds, chain : Chains, text : TextKinds,
            attr_at : 0..MaxDepth, attr_text : {"words", "blank"}] :
        /\ d.attr_at <= Len(d.chain)
        /\ d.attr_at = 0 => d.attr_text = "blank"}

InitExtract ==
    /\ dom \in Documents
    /\ ckpt = NoCkpt /\ state = InitialState
    /\ DiskUnused /\ ProcUnused /\ HistUnused
    /\ CkUnused /\ ReUnused /\ TeUnused /\ LateUnused
    /\ dpc = "parsed" /\ segments = <<>> /\ max_segment_length = 0
    /\ batch_size = 0 /\ optimized = <<>> /\ batches = <<>>
    /\ segment_indices = <<>>

ExtractItem ==
    /\ dpc = "parsed"
    /\ segments' = ExtractTranslatableSegments(dom)
    /\ dpc' = "extracted"
    /\ UNCHANGED <<diskVars, procVars, state, histVars, extVars,
                   max_segment_length, batch_size, optimized, batches,
                   segment_indices>>

\* the item is extracted again (reassembly calls the function once more)
ExtractAgain ==
    /\ dpc = "extracted"
    /\ segments' = ExtractTranslatableSegments(dom)
    /\ dpc' = "reextracted"
    /\ UNCHANGED <<diskVars, procVars, state, histVars, extVars,
                   max_segment_length, batch_size, optimized, batches,
                   segment_indices>>

NextExtract == ExtractItem \/ ExtractAgain

SpecExtract == InitExtract /\ [][NextExtract]_vars

\* the node of a segment is in a skipped area: a text node with an ancestor
\* in SKIP_TAGS (at = its parent's position), or an attribute's element that
\* is in SKIP_TAGS or has such an ancestor (at = the element's position)
FromSkippedArea(seg) ==
    InSkipArea(dom.chain, seg.at)

\* C19: no segment of _extract_translatable_segments, text or attribute,
\* comes from a node with a SKIP_TAGS tag in its ancestor chain.
NoSegmentFromSkippedArea ==
    dpc # "parsed" =>
        \A k \in 1..Len(segments) : ~FromSkippedArea(segments[k])

(***************************************************************************)
(* SpecReassembly: translate_prepared_content on a prepared working        *)
(* directory, for a book of two documents.  A process submits the batches  *)
(* that are not translation_completed, the workers succeed or fail, the    *)
(* items are reassembled and the book is written; the process may be       *)
(* killed at any point and run again.  The content of a document is        *)
(* recorded as the set of batches whose translations it holds; the         *)
(* counters of the checkpoint are not followed here.                       *)
(***************************************************************************)
ChapterId == <<"c", "h">>

\* the batch_size the book was prepared with
PreparedBatchSize == 1

\* the text of a segment as TextDivider receives it
SegmentText(kind) == IF kind = "words" THEN <<"a", ".">> ELSE <<>>

\* extract_and_prepare_content for one item: extract, optimize, group
PreparedBatches(d) ==
    LET segs == ExtractTranslatableSegments(d)
        tuples == [k \in 1..Len(segs) |->
                      [element |-> k - 1, text |-> SegmentText(segs[k].text)]]
    IN  GroupIntoContentAwareBatches(OptimizeSegments(tuples, MaxSegLen),
                                     PreparedBatchSize)

\* the batch ids in the batch info file of the item
BatchInfo(d) == {b - 1 : b \in 1..Len(PreparedBatches(d))}

Items == {1, 2}
BatchIds == 0..(MaxItemBatches - 1)
Keys == Items \X BatchIds

\* the books: a chapter of one paragraph, with or without a title
\* attribute, and a second document that is an index, a page of text or a
\* page without text
Books ==
    {bk \in [Items -> Documents] :
        /\ bk[1].item_id = ChapterId /\ bk[1].chain = <<"p">>
        /\ bk[1].text = "words"
        /\ bk[2].item_id # ChapterId /\ bk[2].chain = <<"p">>
        /\ bk[2].text \in {"words", "blank"} /\ bk[2].attr_at = 0}

\* (mutant) every item is given a batch 0, with or without segments
BatchFilesEveryItem(bk) ==
    {k \in Keys : k[2] \in BatchInfo(bk[k[1]]) \/ k[2] = 0}

\* batch_files: the batches of every item that has batch info
BatchFiles(bk) == {k \in Keys : k[2] \in BatchInfo(bk[k[1]])}

NoHtml == [exists |-> FALSE, batches |-> {}]
NoResult == [built |-> "no", batches |-> {}]
NoBook == [written |-> FALSE,
           items |-> [i \in Items |-> [content |-> "original",
                                       batches |-> {}]]]

WorkerOutcomes == {"ok", "failed", "failed_late"}

InitReassembly ==
    /\ book \in Books
    /\ batch_status = [k \in Keys |-> FALSE]
    /\ translated_txt = [k \in Keys |-> FALSE]
    /\ translated_html = [i \in Items |-> NoHtml]
    /\ futures = [k \in Keys |-> "none"]
    /\ processed_item_batches = [i \in Items |-> {}]
    /\ results = [i \in Items |-> NoResult]
    /\ translated_book = NoBook
    /\ ckpt = NoCkpt
    /\ state = [InitialState EXCEPT !.translation_preparation_completed = TRUE]
    /\ pc = "idle" /\ runs = 0 /\ phase = "translate" /\ force = FALSE
    /\ loaded = FALSE
    /\ translation_cache = EmptyMap /\ translator_cache = EmptyMap
    /\ api_enabled = FALSE /\ counters = NoCounters
    /\ nextSubmit = 1 /\ submitted = {} /\ collected = {}
    /\ completed_count = 0 /\ processed = {}
    /\ wpc = [b \in Batches |-> "none"]
    /\ wlocal = [b \in Batches |-> NoLocal]
    /\ DiskUnused /\ HistUnused /\ DivUnused /\ CkUnused /\ DomUnused
    /\ TeUnused /\ LateUnused

ReFrame ==
    UNCHANGED <<diskVars, phase, force, loaded, translation_cache,
                translator_cache, api_enabled, counters, nextSubmit,
                submitted, collected, completed_count, processed, wpc,
                wlocal, apiCalls, startStatus, startFiles, startPrepared,
                prev, lastReq, lastResult, served, divVars, ckVars, ops, dom,
                book, teVars, lateVars>>

\* a new process up to the end of the submit loop: the batches that are
\* translation_completed go to processed_item_batches, the others to workers
ReStartRun ==
    /\ pc = "idle" /\ runs < MaxRuns
    /\ runs' = runs + 1
    /\ state' = UpdateTranslationPhase(state, FALSE, Absent, Absent, Absent,
                                       Cardinality(BatchFiles(book)), 0)
    /\ processed_item_batches' =
          [i \in Items |-> {b \in BatchIds : /\ <<i, b>> \in BatchFiles(book)
                                             /\ batch_status[<<i, b>>]}]
    /\ futures' = [k \in Keys |->
                      IF k \in BatchFiles(book) /\ ~batch_status[k]
                      THEN "running" ELSE "none"]
    /\ results' = [i \in Items |-> NoResult]
    /\ pc' = "translate"
    /\ lastOp' = "submit"
    /\ UNCHANGED <<batch_status, translated_txt, translated_html,
                   translated_book>>
    /\ ReFrame

\* _translate_prepared_batch: True after translated.txt and the status are
\* written; False when it fails before writing, or after the status is saved
ReWorker(k) ==
    /\ pc = "translate" /\ futures[k] = "running"
    /\ \E outcome \in WorkerOutcomes :
          /\ futures' = [futures EXCEPT ![k] =
                            IF outcome = "ok" THEN "ok" ELSE "failed"]
          /\ IF outcome = "failed"
             THEN UNCHANGED <<translated_txt, batch_status>>
             ELSE /\ translated_txt' = [translated_txt EXCEPT ![k] = TRUE]
                  /\ batch_status' = [batch_status EXCEPT ![k] = TRUE]
    /\ lastOp' = "worker"
    /\ UNCHANGED <<pc, runs, state, translated_html, processed_item_batches,
                   results, translated_book>>
    /\ ReFrame

\* the loop over as_completed(futures): only the successes are recorded
ReCollect ==
    /\ pc = "translate"
    /\ \A k \in Keys : futures[k] # "running"
    /\ processed_item_batches' =
          [i \in Items |-> processed_item_batches[i]
                              \cup {b \in BatchIds : futures[<<i, b>>] = "ok"}]
    /\ LET done == Cardinality({k \in Keys : futures[k] = "ok"})
       IN  state' = IF done = 0 THEN state
                    ELSE UpdateTranslationPhase(state, FALSE, Absent, Absent,
                                                Absent, Absent, done)
    /\ pc' = "rebuild"
    /\ lastOp' = "collect"
    /\ UNCHANGED <<runs, batch_status, translated_txt, translated_html,
                   futures, results, translated_book>>
    /\ ReFrame

\* one round of the loop over processed_item_batches: translated.html is
\* loaded when it exists, else the item is rebuilt from the translated.txt
\* of its processed batches and saved as translated.html
ReRebuildItem(i) ==
    /\ pc = "rebuild"
    /\ processed_item_batches[i] # {}
    /\ results[i].built = "no"
    /\ IF translated_html[i].exists
       THEN /\ results' = [results EXCEPT ![i] =
                  [built |-> "loaded", batches |-> translated_html[i].batches]]
            /\ UNCHANGED translated_html
       ELSE LET applied == {b \in processed_item_batches[i] :
                               translated_txt[<<i, b>>]}
            IN  /\ results' = [results EXCEPT ![i] =
                      [built |-> "rebuilt", batches |-> applied]]
                /\ translated_html' = [translated_html EXCEPT ![i] =
                      [exists |-> TRUE, batches |-> applied]]
    /\ lastOp' = "rebuild"
    /\ UNCHANGED <<pc, runs, state, batch_status, translated_txt, futures,
                   processed_item_batches, translated_book>>
    /\ ReFrame

\* the items of results replace their originals, the translation and the
\* postprocessing phases are marked completed, the book is written
ReFinalize ==
    /\ pc = "rebuild"
    /\ \A i \in Items :
          processed_item_batches[i] # {} => results[i].built # "no"
    /\ translated_book' =
          [written |-> TRUE,
           items |-> [i \in Items |->
                        IF results[i].built # "no"
                        THEN [content |-> "translated",
                              batches |-> results[i].batches]
                        ELSE [content |-> "original", batches |-> {}]]]
    /\ state' = UpdatePostprocessingPhase(
                    UpdateTranslationPhase(state, TRUE, Absent, Absent,
                                           Absent, Absent, Absent), TRUE)
    /\ pc' = "done"
    /\ lastOp' = "finalize"
    /\ UNCHANGED <<runs, batch_status, translated_txt, translated_html,
                   futures, processed_item_batches, results>>
    /\ ReFrame

\* the process returns its statistics and ends
ReExit ==
    /\ pc = "done"
    /\ pc' = "idle"
    /\ lastOp' = "exit"
    /\ UNCHANGED <<runs, state, reVars>>
    /\ ReFrame

\* the process is killed; its workers die with it
ReKill ==
    /\ pc \in {"translate", "rebuild"}
    /\ pc' = "idle"
    /\ futures' = [k \in Keys |-> "none"]
    /\ lastOp' = "kill"
    /\ UNCHANGED <<runs, state, batch_status, translated_txt,
                   translated_html, processed_item_batches, results,
                   translated_book>>
    /\ ReFrame

NextReassembly ==
    \/ ReStartRun
    \/ \E k \in Keys : ReWorker(k)
    \/ ReCollect
    \/ \E i \in Items : ReRebuildItem(i)
    \/ ReFinalize
    \/ ReExit
    \/ ReKill

SpecReassembly == InitReassembly /\ [][NextReassembly]_vars

\* C15: an item that reassembly loaded from translated.html holds the
\* translations of every batch of the item that is translation_completed.
LoadedItemHoldsCompletedBatches ==
    \A i \in Items :
        results[i].built = "loaded" =>
            \A b \in BatchIds :
                (<<i, b>> \in BatchFiles(book) /\ batch_status[<<i, b>>])
                    => b \in results[i].batches

\* C16: the translation phase is marked completed, and a translated
\* document is in the written book, only when every batch of the document
\* is translation_completed.
FinalizedOnlyWhenComplete ==
    /\ state.translation_completed =>
          \A k \in BatchFiles(book) : batch_status[k]
    /\ translated_book.written =>
          \A i \in Items :
              translated_book.items[i].content = "translated" =>
                  \A b \in BatchInfo(book[i]) : batch_status[<<i, b>>]

ItemOutcomes == {"translated", "failed", "failed_late"}

InitItems ==
    /\ completed_items = <<>>
    /\ item_completed = [i \in Items |-> FALSE]
    /\ translated_html = [i \in Items |-> NoHtml]
    /\ futures = [i \in Items |-> "none"]
    /\ results = [i \in Items |-> NoResult]
    /\ translated_book = NoBook
    /\ book = <<>> /\ batch_status = <<>> /\ translated_txt = <<>>
    /\ processed_item_batches = <<>>
    /\ ckpt = NoCkpt /\ state = InitialState
    /\ pc = "idle" /\ runs = 0 /\ phase = "all" /\ force = FALSE
    /\ loaded = FALSE
    /\ translation_cache = EmptyMap /\ translator_cache = EmptyMap
    /\ api_enabled = FALSE /\ counters = NoCounters
    /\ nextSubmit = 1 /\ submitted = {} /\ collected = {}
    /\ completed_count = 0 /\ processed = {}
    /\ wpc = [b \in Batches |-> "none"]
    /\ wlocal = [b \in Batches |-> NoLocal]
    /\ DiskUnused /\ HistUnused /\ DivUnused /\ CkUnused /\ DomUnused
    /\ LateUnused

TeFrame ==
    UNCHANGED <<diskVars, phase, force, loaded, translation_cache,
                translator_cache, api_enabled, counters, nextSubmit,
                submitted, collected, completed_count, processed, wpc,
                wlocal, apiCalls, startStatus, startFiles, startPrepared,
                prev, lastReq, lastResult, served, divVars, ckVars, ops, dom,
                book, batch_status, translated_txt, processed_item_batches,
                lateVars>>

\* a new process up to the end of the submit loop: an item of
\* completed_items is loaded from translated.html when the file exists, and
\* is left out otherwise; every other item is given to a worker
TeStartRun ==
    /\ pc = "idle" /\ runs < MaxRuns
    /\ runs' = runs + 1
    /\ futures' = [i \in Items |->
                      IF InSeq(i, completed_items) THEN "none" ELSE "running"]
    /\ results' = [i \in Items |->
                      IF InSeq(i, completed_items) /\ translated_html[i].exists
                      THEN [built |-> "loaded",
                            batches |-> translated_html[i].batches]
                      ELSE NoResult]
    /\ pc' = "translate"
    /\ lastOp' = "submit"
    /\ UNCHANGED <<state, completed_items, item_completed, translated_html,
                   translated_book>>
    /\ TeFrame

\* _translate_item_parallel: the stored translated.html of an item whose
\* batch info says completed; else the item is translated, saved as
\* translated.html and its batch info marked completed; None when an
\* exception is raised, before or after translated.html is saved
TeItemWorker(i) ==
    /\ pc = "translate" /\ futures[i] = "running"
    /\ IF item_completed[i] /\ translated_html[i].exists
       THEN /\ futures' = [futures EXCEPT ![i] = "translated"]
            /\ UNCHANGED <<translated_html, item_completed>>
       ELSE \E outcome \in ItemOutcomes :
              /\ futures' = [futures EXCEPT ![i] =
                    IF outcome = "translated" THEN "translated" ELSE "failed"]
              /\ translated_html' =
                    IF outcome = "failed" THEN translated_html
                    ELSE [translated_html EXCEPT ![i] =
                             [exists |-> TRUE, batches |-> BatchIds]]
              /\ item_completed' =
                    IF outcome = "translated"
                    THEN [item_completed EXCEPT ![i] = TRUE]
                    ELSE item_completed
    /\ lastOp' = "worker"
    /\ UNCHANGED <<pc, runs, state, completed_items, results,
                   translated_book>>
    /\ TeFrame

\* one round of the loop over as_completed(futures): the result is stored
\* and the item id is appended to completed_items
TeCollect(i) ==
    /\ pc = "translate" /\ futures[i] \in {"translated", "failed"}
    /\ results' = [results EXCEPT ![i] =
                      IF futures[i] = "translated"
                      THEN [built |-> "rebuilt", batches |-> BatchIds]
                      ELSE NoResult]
    /\ completed_items' = IF InSeq(i, completed_items) THEN completed_items
                          ELSE Append(completed_items, i)
    /\ futures' = [futures EXCEPT ![i] = "collected"]
    /\ lastOp' = "collect"
    /\ UNCHANGED <<pc, runs, state, item_completed, translated_html,
                   translated_book>>
    /\ TeFrame

\* the items of results replace their originals, the phases are marked
\* completed, the book is written
TeFinalize ==
    /\ pc = "translate"
    /\ \A i \in Items : futures[i] \in {"none", "collected"}
    /\ translated_book' =
          [written |-> TRUE,
           items |-> [i \in Items |->
                        IF results[i].built # "no"
                        THEN [content |-> "translated",
                              batches |-> results[i].batches]
                        ELSE [content |-> "original", batches |-> {}]]]
    /\ state' = UpdatePostprocessingPhase(
                    UpdateTranslationPhase(state, TRUE, Absent, Absent,
                                           Absent, Absent, Absent), TRUE)
    /\ pc' = "done"
    /\ lastOp' = "finalize"
    /\ UNCHANGED <<runs, completed_items, item_completed, translated_html,
                   futures, results>>
    /\ TeFrame

\* the process returns its statistics and ends
TeExit ==
    /\ pc = "done"
    /\ pc' = "idle"
    /\ lastOp' = "exit"
    /\ UNCHANGED <<runs, state, completed_items, item_completed,
                   translated_html, futures, results, translated_book>>
    /\ TeFrame

\* the process is killed; its workers die with it
TeKill ==
    /\ pc = "translate"
    /\ pc' = "idle"
    /\ futures' = [i \in Items |-> "none"]
    /\ lastOp' = "kill"
    /\ UNCHANGED <<runs, state, completed_items, item_completed,
                   translated_html, results, translated_book>>
    /\ TeFrame

NextItems ==
    \/ TeStartRun
    \/ \E i \in Items : TeItemWorker(i)
    \/ \E i \in Items : TeCollect(i)
    \/ TeFinalize
    \/ TeExit
    \/ TeKill

SpecItems == InitItems /\ [][NextItems]_vars

\* C17: an item id enters completed_items only when _translate_item_parallel
\* has returned a translated document for it, never when it returned None.
CompletedOnlyIfTranslated ==
    [][\A i \in Items :
          (InSeq(i, completed_items') /\ ~InSeq(i, completed_items))
              => results'[i].built # "no"]_vars

(***************************************************************************)
(* SpecWorkers: the workers of the batches run _translate_prepared_batch   *)
(* concurrently in one process with the API enabled.  A worker is          *)
(* interleaved with the others between its cache check, the cache check    *)
(* of translate_batch, the response of the API and its cache fill, as      *)
(* none of these is done under self.lock.                                  *)
(***************************************************************************)
\* the translation cache restored from the working directory
RestoredCaches == {EmptyMap, Put(EmptyMap, "a", Translation("a"))}

InitWorkers ==
    /\ ckpt = SaveCheckpoint(PreparedState(PreparedChars))
    /\ statusFile = [b \in Batches |-> "false"]
    /\ translatedFile = [b \in Batches |-> NoFile]
    /\ cacheFile = NoCache
    /\ state = PreparedState(PreparedChars)
    /\ pc = "translate" /\ runs = 1 /\ phase = "all" /\ force = FALSE
    /\ loaded = TRUE
    /\ translation_cache \in RestoredCaches
    /\ translator_cache = EmptyMap
    /\ api_enabled = TRUE /\ counters = NoCounters
    /\ nextSubmit = 1 /\ submitted = {} /\ collected = {}
    /\ completed_count = 0 /\ processed = {}
    /\ wpc = [b \in Batches |-> "none"]
    /\ wlocal = [b \in Batches |-> NoLocal]
    /\ HistUnused /\ DivUnused /\ ExtUnused

WwFrame ==
    UNCHANGED <<cacheFile, pc, runs, phase, force, loaded, api_enabled,
                counters, collected, completed_count, processed, startStatus,
                startFiles, startPrepared, prev, lastReq, lastResult, divVars,
                extVars>>

\* executor.submit(_translate_prepared_batch, ...) for the next batch
WwSubmit ==
    /\ nextSubmit \in Batches
    /\ wpc[nextSubmit] = "none"
    /\ wpc' = [wpc EXCEPT ![nextSubmit] = "start"]
    /\ submitted' = submitted \cup {nextSubmit}
    /\ nextSubmit' = nextSubmit + 1
    /\ lastOp' = "submit"
    /\ UNCHANGED <<ckpt, statusFile, translatedFile, state, translation_cache,
                   translator_cache, wlocal, apiCalls, served>>
    /\ WwFrame

\* the cache check of _translate_prepared_batch
WwCheckCache(b) ==
    /\ wpc[b] = "start"
    /\ LET todo == TranslationsToDo(translation_cache, BatchTexts(b))
           cached == CachedTranslations(translation_cache, BatchTexts(b))
       IN  IF todo = <<>>
           THEN /\ wlocal' = [wlocal EXCEPT ![b] =
                     [NoLocal EXCEPT !.all =
                         CombineTranslations(BatchTexts(b), cached, <<>>)]]
                /\ wpc' = [wpc EXCEPT ![b] = "write"]
           ELSE /\ wlocal' = [wlocal EXCEPT ![b] =
                     [NoLocal EXCEPT !.todo = todo, !.cached = cached]]
                /\ wpc' = [wpc EXCEPT ![b] = "send"]
    /\ lastOp' = "check"
    /\ UNCHANGED <<ckpt, statusFile, translatedFile, state, translation_cache,
                   translator_cache, nextSubmit, submitted, apiCalls, served>>
    /\ WwFrame

\* translate_batch up to the request: the texts that miss the translator's
\* cache are sent, the others are answered from it
WwSend(b) ==
    /\ wpc[b] = "send"
    /\ LET todo == wlocal[b].todo
           request == TranslatorMisses(translator_cache, todo)
           translations ==
               [i \in 1..Len(todo) |->
                   IF IsBlank(todo[i]) THEN todo[i]
                   ELSE IF todo[i] \in DOMAIN translator_cache
                        THEN translator_cache[todo[i]]
                        ELSE NoneText]
       IN  /\ wlocal' = [wlocal EXCEPT ![b].translated = translations,
                                       ![b].request = request]
           /\ wpc' = [wpc EXCEPT ![b] =
                         IF request = <<>> THEN "fill" ELSE "wait"]
           /\ apiCalls' = IF request = <<>> THEN apiCalls
                          ELSE CountCalls(apiCalls, <<request>>)
    /\ lastOp' = "send"
    /\ UNCHANGED <<ckpt, statusFile, translatedFile, state, translation_cache,
                   translator_cache, nextSubmit, submitted, served>>
    /\ WwFrame

\* the texts of todo that the API answered in the fallback loop
FallbackAnswered(todo, outcomes, requests) ==
    {todo[i] : i \in {j \in 1..Len(todo) :
                         /\ outcomes[j] # "raise"
                         /\ todo[j] \in Range(requests)}}

\* the response of the API: translate_batch stores and returns the
\* translations; when the request raised, the fallback loop asks for every
\* text with translate_text
WwReceive(b) ==
    /\ wpc[b] = "wait"
    /\ \E o \in ApiOutcomes :
         \E os \in FallbackOutcomes(o, Len(wlocal[b].todo)) :
            LET todo == wlocal[b].todo
                request == wlocal[b].request
                bt == ApiBatchResult(request, o, TRUE)
                pos(i) == Cardinality({j \in 1..i :
                              wlocal[b].translated[j] = NoneText})
                result == [i \in 1..Len(todo) |->
                              IF wlocal[b].translated[i] = NoneText
                              THEN bt[pos(i)]
                              ELSE wlocal[b].translated[i]]
                fb == FallbackLoop(translator_cache, todo, os, TRUE, 1)
            IN  IF o = "raise"
                THEN /\ translator_cache' = fb.cache
                     /\ apiCalls' = CountCalls(apiCalls,
                           [k \in 1..Len(fb.requests) |-> <<fb.requests[k]>>])
                     /\ served' = served
                           \cup FallbackAnswered(todo, os, fb.requests)
                     /\ wlocal' = [wlocal EXCEPT
                           ![b].translated = fb.result,
                           ![b].request =
                               SelectSeq(todo, LAMBDA t :
                                  t \in FallbackAnswered(todo, os,
                                                         fb.requests))]
                ELSE /\ translator_cache' =
                           FillCache(translator_cache, request, bt, 1)
                     /\ apiCalls' = apiCalls
                     /\ served' = served \cup Range(request)
                     /\ wlocal' = [wlocal EXCEPT ![b].translated = result]
    /\ wpc' = [wpc EXCEPT ![b] = "fill"]
    /\ lastOp' = "receive"
    /\ UNCHANGED <<ckpt, statusFile, translatedFile, state, translation_cache,
                   nextSubmit, submitted>>
    /\ WwFrame

\* the cache fill of _translate_prepared_batch and all_translated_texts
WwFill(b) ==
    /\ wpc[b] = "fill"
    /\ translation_cache' = FillCache(translation_cache, wlocal[b].todo,
                                      wlocal[b].translated, 1)
    /\ wlocal' = [wlocal EXCEPT ![b].all =
                     CombineTranslations(BatchTexts(b), wlocal[b].cached,
                                         wlocal[b].translated)]
    /\ wpc' = [wpc EXCEPT ![b] = "write"]
    /\ lastOp' = "fill"
    /\ UNCHANGED <<ckpt, statusFile, translatedFile, state, translator_cache,
                   nextSubmit, submitted, apiCalls, served>>
    /\ WwFrame

\* translated.txt and the batch status are written; the join raises on a
\* None and the worker returns False
WwWrite(b) ==
    /\ wpc[b] = "write"
    /\ IF InSeq(NoneText, wlocal[b].all)
       THEN /\ translatedFile' = [translatedFile EXCEPT ![b] = Truncated]
            /\ wpc' = [wpc EXCEPT ![b] = "failed"]
            /\ UNCHANGED <<ckpt, statusFile, state>>
       ELSE /\ translatedFile' =
                  [translatedFile EXCEPT ![b] = Written(wlocal[b].all)]
            /\ statusFile' = [statusFile EXCEPT ![b] = "true"]
            /\ state' = NoteBatchStatus(state, b, TRUE)
            /\ ckpt' = SaveCheckpoint(state')
            /\ wpc' = [wpc EXCEPT ![b] = "done"]
    /\ lastOp' = "write"
    /\ UNCHANGED <<translation_cache, translator_cache, wlocal, nextSubmit,
                   submitted, apiCalls, served>>
    /\ WwFrame

NextWorkers ==
    \/ WwSubmit
    \/ \E b \in Batches :
          \/ WwCheckCache(b)
          \/ WwSend(b)
          \/ WwReceive(b)
          \/ WwFill(b)
          \/ WwWrite(b)

SpecWorkers == InitWorkers /\ [][NextWorkers]_vars

\* the texts for which the API has answered the worker of batch b
Answered(b) ==
    IF wpc[b] \in {"fill", "write", "done", "failed"}
    THEN Range(wlocal[b].request) ELSE {}

\* C20: no text is translated by the API for the workers of two batches:
\* a text that two concurrent batches share is translated at most once.
SharedTextTranslatedOnce ==
    \A b1 \in Batches : \A b2 \in Batches :
        b1 # b2 => Answered(b1) \cap Answered(b2) = {}

(***************************************************************************)
(* SpecCkRace: the main thread of translate_prepared_content and the       *)
(* workers of the batches use one CheckpointManager.  save_checkpoint is   *)
(* three steps for a thread: open(status.json, 'w') truncates the file,    *)
(* json.dump serializes the state into the buffer of the file object, and  *)
(* leaving the with block writes the buffer from offset 0.  No lock is     *)
(* taken in CheckpointManager, so the steps of the threads interleave.     *)
(***************************************************************************)
MainThread == 0
Threads == {MainThread} \cup Batches

Cell(kind, value) == [kind |-> kind, value |-> value]

\* json.dump(self.state): the scalar part, one chunk per entry of
\* completed_batches, the closing chunk
Serialize(s) ==
    <<Cell("head", s.batches_completed)>>
        \o [k \in 1..Len(s.completed_batches) |->
               Cell("batch", s.completed_batches[k])]
        \o <<Cell("end", 0)>>

\* the buffer written at offset 0 over what the file holds
Overlay(file, buf) == buf \o SubSeq(file, Len(buf) + 1, Len(file))

\* json.load accepts the file: one state, from its first to its last chunk
Complete(file) ==
    /\ Len(file) >= 2
    /\ file[1].kind = "head"
    /\ file[Len(file)].kind = "end"
    /\ \A k \in 2..(Len(file) - 1) : file[k].kind = "batch"

InitCkRace ==
    /\ state = PreparedState(PreparedChars)
    /\ ckpt = SaveCheckpoint(state)
    /\ status_json = Serialize(state)
    /\ statusFile = [b \in Batches |-> "false"]
    /\ translatedFile = [b \in Batches |-> NoFile]
    /\ cacheFile = NoCache
    /\ tpc = [t \in Threads |-> IF t = MainThread THEN "wait" ELSE "run"]
    /\ buffer = [t \in Threads |-> <<>>]
    /\ ProcUnused /\ HistUnused /\ DivUnused /\ RaceRestUnused

RaceFrame ==
    UNCHANGED <<ckpt, translatedFile, cacheFile, pc, runs, phase, force,
                loaded, translation_cache, translator_cache, api_enabled,
                counters, nextSubmit, submitted, processed, wpc, wlocal,
                histVars, divVars, raceRest>>

\* _translate_prepared_batch up to save_batch_status: the status file of
\* the batch is written and the batch is noted in the state
RaceWorkerStatus(b) ==
    /\ tpc[b] = "run"
    /\ statusFile' = [statusFile EXCEPT ![b] = "true"]
    /\ state' = NoteBatchStatus(state, b, TRUE)
    /\ tpc' = [tpc EXCEPT ![b] = "save"]
    /\ UNCHANGED <<buffer, status_json, collected, completed_count>>
    /\ RaceFrame

\* _translate_prepared_batch fails before save_batch_status
RaceWorkerFail(b) ==
    /\ tpc[b] = "run"
    /\ tpc' = [tpc EXCEPT ![b] = "done"]
    /\ UNCHANGED <<state, statusFile, buffer, status_json, collected,
                   completed_count>>
    /\ RaceFrame

\* the result loop of the main thread for a finished worker:
\* update_translation_phase(batches_completed=completed_count) on success
RaceMainCollect(b) ==
    /\ tpc[MainThread] = "wait"
    /\ tpc[b] = "done" /\ b \notin collected
    /\ collected' = collected \cup {b}
    /\ IF statusFile[b] = "true"
       THEN /\ completed_count' = completed_count + 1
            /\ state' = UpdateTranslationPhase(state, FALSE, Absent, Absent,
                                               Absent, Absent,
                                               completed_count')
            /\ tpc' = [tpc EXCEPT ![MainThread] = "save"]
       ELSE UNCHANGED <<completed_count, state, tpc>>
    /\ UNCHANGED <<statusFile, buffer, status_json>>
    /\ RaceFrame

\* save_checkpoint: open(checkpoint_file, 'w')
SaveOpen(t) ==
    /\ tpc[t] = "save"
    /\ status_json' = <<>>
    /\ tpc' = [tpc EXCEPT ![t] = "opened"]
    /\ UNCHANGED <<state, statusFile, buffer, collected, completed_count>>
    /\ RaceFrame

\* save_checkpoint: json.dump(self.state, f)
SaveDump(t) ==
    /\ tpc[t] = "opened"
    /\ buffer' = [buffer EXCEPT ![t] = Serialize(state)]
    /\ tpc' = [tpc EXCEPT ![t] = "dumped"]
    /\ UNCHANGED <<state, statusFile, status_json, collected,
                   completed_count>>
    /\ RaceFrame

\* save_checkpoint: the with block is left, the buffer is written
SaveClose(t) ==
    /\ tpc[t] = "dumped"
    /\ status_json' = Overlay(status_json, buffer[t])
    /\ buffer' = [buffer EXCEPT ![t] = <<>>]
    /\ tpc' = [tpc EXCEPT ![t] = IF t = MainThread THEN "wait" ELSE "done"]
    /\ UNCHANGED <<state, statusFile, collected, completed_count>>
    /\ RaceFrame

NextCkRace ==
    \/ \E b \in Batches :
          \/ RaceWorkerStatus(b)
          \/ RaceWorkerFail(b)
          \/ RaceMainCollect(b)
    \/ \E t \in Threads :
          \/ SaveOpen(t)
          \/ SaveDump(t)
          \/ SaveClose(t)

SpecCkRace == InitCkRace /\ [][NextCkRace]_vars

Saving == {t \in Threads : tpc[t] \in {"opened", "dumped"}}

\* C21: at most one thread is inside save_checkpoint at a time, and
\* whenever no thread is inside it status.json holds one complete state.
CheckpointWritesExclusive ==
    /\ Cardinality(Saving) <= 1
    /\ Saving = {} => Complete(status_json)

(***************************************************************************)
(* SpecItemBatches: the parallel branch of _translate_item_parallel for    *)
(* one item.  The branch is taken for more than ParallelThreshold batches; *)
(* the item has one batch more than that.  The pool starts the submitted   *)
(* calls in order, min(max_workers, len(batches)) at a time.               *)
(***************************************************************************)
ParallelThreshold == 5
ItemBatchIds == 0..ParallelThreshold

Running == {b \in ItemBatchIds : bstate[b] = "running"}
Finished == {b \in ItemBatchIds : bstate[b] \in {"ok", "failed"}}

\* min(self.max_workers, len(batches))
PoolSize ==
    IF MaxWorkers < Cardinality(ItemBatchIds) THEN MaxWorkers
    ELSE Cardinality(ItemBatchIds)

InitItemBatches ==
    /\ bstate = [b \in ItemBatchIds |-> "queued"]
    /\ yielded = {}
    /\ entries_completed = {}
    /\ ckpt = NoCkpt /\ state = InitialState
    /\ DiskUnused /\ ProcUnused /\ HistUnused /\ DivUnused /\ PoolRestUnused

PoolFrame ==
    UNCHANGED <<diskVars, procVars, state, apiCalls, startStatus, startFiles,
                startPrepared, prev, lastResult, served, divVars, poolRest>>

\* a thread of the pool takes the next submitted call
PbStart(b) ==
    /\ bstate[b] = "queued"
    /\ \A c \in ItemBatchIds : c < b => bstate[c] # "queued"
    /\ Cardinality(Running) < PoolSize
    /\ bstate' = [bstate EXCEPT ![b] = "running"]
    /\ lastOp' = "start" /\ lastReq' = <<b>>
    /\ UNCHANGED <<yielded, entries_completed>>
    /\ PoolFrame

\* _translate_batch returns, or raises
PbFinish(b) ==
    /\ bstate[b] = "running"
    /\ \E outcome \in {"ok", "failed"} :
          bstate' = [bstate EXCEPT ![b] = outcome]
    /\ lastOp' = "finish" /\ lastReq' = <<b>>
    /\ UNCHANGED <<yielded, entries_completed>>
    /\ PoolFrame

\* one round of "for i, future in enumerate(as_completed(futures))": the
\* future of batch b is the i-th to be yielded; when its result() does not
\* raise, batch_info["batches"][i] is marked completed
PbYield(b) ==
    /\ b \in Finished /\ b \notin yielded
    /\ LET i == Cardinality(yielded)
       IN  /\ entries_completed' =
                 IF bstate[b] = "ok" THEN entries_completed \cup {i}
                 ELSE entries_completed
           /\ lastReq' = <<i, b>>
    /\ yielded' = yielded \cup {b}
    /\ lastOp' = "yield"
    /\ UNCHANGED bstate
    /\ PoolFrame

NextItemBatches ==
    \E b \in ItemBatchIds : PbStart(b) \/ PbFinish(b) \/ PbYield(b)

SpecItemBatches == InitItemBatches /\ [][NextItemBatches]_vars

\* C22: the entry of batch b is marked completed only when the translation
\* of batch b itself has finished successfully.
EntryMarkedAfterOwnBatch ==
    [][\A b \in ItemBatchIds :
          (b \in entries_completed' /\ b \notin entries_completed)
              => bstate[b] = "ok"]_vars

(***************************************************************************)
(* SpecPools: how many batches are translated at the same time.            *)
(* translate_prepared_content submits every batch to one pool of           *)
(* max_workers threads.  translate_epub submits the items to a pool of     *)
(* max_workers threads, and the worker of an item with more than           *)
(* ParallelThreshold batches opens a pool of its own for them; an item     *)
(* with fewer translates its batches one after the other.                  *)
(***************************************************************************)
Modes == {"translate_epub", "translate_prepared_content"}
ItemSizes == {1, ParallelThreshold + 1}

MinOfTwo(a, b) == IF a < b THEN a ELSE b

RECURSIVE SumOver(_, _)
SumOver(f, S) ==
    IF S = {} THEN 0
    ELSE LET x == CHOOSE y \in S : TRUE IN f[x] + SumOver(f, S \ {x})

\* the batches being translated now
BatchesInFlight == SumOver(irunning, Items)

\* the threads translating batches of one item in translate_epub
ItemCapacity(n) ==
    IF n > ParallelThreshold THEN MinOfTwo(MaxWorkers, n) ELSE 1

InitPools ==
    /\ pmode \in Modes
    /\ nbatches \in [Items -> ItemSizes]
    /\ istate = [i \in Items |-> "queued"]
    /\ iqueued = [i \in Items |-> IF pmode = "translate_epub" THEN 0
                                  ELSE nbatches[i]]
    /\ irunning = [i \in Items |-> 0]
    /\ ckpt = NoCkpt /\ state = InitialState
    /\ DiskUnused /\ ProcUnused /\ HistUnused /\ DivUnused /\ NestRestUnused

NestFrame ==
    UNCHANGED <<diskVars, procVars, state, histVars, divVars, nestRest,
                pmode, nbatches>>

\* translate_epub: a thread of the item pool takes the next item; its
\* worker divides the item and has its batches to translate
NeItemStart(i) ==
    /\ pmode = "translate_epub"
    /\ istate[i] = "queued"
    /\ \A j \in Items : j < i => istate[j] # "queued"
    /\ Cardinality({j \in Items : istate[j] = "running"}) < MaxWorkers
    /\ istate' = [istate EXCEPT ![i] = "running"]
    /\ iqueued' = [iqueued EXCEPT ![i] = nbatches[i]]
    /\ UNCHANGED irunning
    /\ NestFrame

\* translate_epub: the worker of the item, or a thread of the pool it
\* opened, starts _translate_batch for the next batch
NeBatchStart(i) ==
    /\ pmode = "translate_epub"
    /\ istate[i] = "running"
    /\ iqueued[i] > 0
    /\ irunning[i] < ItemCapacity(nbatches[i])
    /\ iqueued' = [iqueued EXCEPT ![i] = @ - 1]
    /\ irunning' = [irunning EXCEPT ![i] = @ + 1]
    /\ UNCHANGED istate
    /\ NestFrame

\* translate_prepared_content: a thread of the one pool starts
\* _translate_prepared_batch for the next batch
NeOnePoolStart(i) ==
    /\ pmode = "translate_prepared_content"
    /\ iqueued[i] > 0
    /\ \A j \in Items : j < i => iqueued[j] = 0
    /\ BatchesInFlight < MaxWorkers
    /\ iqueued' = [iqueued EXCEPT ![i] = @ - 1]
    /\ irunning' = [irunning EXCEPT ![i] = @ + 1]
    /\ UNCHANGED istate
    /\ NestFrame

\* the translation of a batch ends
NeBatchFinish(i) ==
    /\ irunning[i] > 0
    /\ irunning' = [irunning EXCEPT ![i] = @ - 1]
    /\ UNCHANGED <<istate, iqueued>>
    /\ NestFrame

\* translate_epub: the worker of the item returns
NeItemFinish(i) ==
    /\ pmode = "translate_epub"
    /\ istate[i] = "running"
    /\ iqueued[i] = 0 /\ irunning[i] = 0
    /\ istate' = [istate EXCEPT ![i] = "done"]
    /\ UNCHANGED <<iqueued, irunning>>
    /\ NestFrame

NextPools ==
    \E i \in Items :
        \/ NeItemStart(i)
        \/ NeBatchStart(i)
        \/ NeOnePoolStart(i)
        \/ NeBatchFinish(i)
        \/ NeItemFinish(i)

SpecPools == InitPools /\ [][NextPools]_vars

\* C23: in translate_prepared_content and in translate_epub, no more than
\* max_workers batches are being translated at the same time.
BatchesInFlightWithinMaxWorkers == BatchesInFlight <= MaxWorkers

(***************************************************************************)
(* SpecRate: DeepseekTranslator._make_api_request called by the worker     *)
(* threads.  A caller reads the clock and last_request_time, sleeps for    *)
(* what is left of the interval, then posts; a response that succeeds      *)
(* stores the clock in last_request_time, one that fails is retried after  *)
(* 2 ** attempt seconds.  Nothing is held between the read and the store.  *)
(***************************************************************************)
rate_limit == 10
RateLimitInterval == 60 \div rate_limit
MaxRetries == 1
MaxElapsed == 8
Callers == 1..MaxWorkers

InitRate ==
    /\ clock = RateLimitInterval
    /\ last_request_time = 0
    /\ rpc = [t \in Callers |-> "idle"]
    /\ wake_at = [t \in Callers |-> 0]
    /\ attempt_no = [t \in Callers |-> 0]
    /\ prev_start = Absent
    /\ last_start = Absent
    /\ ckpt = NoCkpt /\ state = InitialState
    /\ DiskUnused /\ ProcUnused /\ HistUnused /\ DivUnused /\ RateRestUnused

RateFrame ==
    UNCHANGED <<diskVars, procVars, state, histVars, divVars, rateRest>>

\* lines 328-333: the rate limiting test of a call
RlEnter(t) ==
    /\ rpc[t] = "idle"
    /\ LET time_since_last_request == clock - last_request_time IN
       IF time_since_last_request < RateLimitInterval
       THEN /\ rpc' = [rpc EXCEPT ![t] = "sleep"]
            /\ wake_at' = [wake_at EXCEPT ![t] =
                   clock + (RateLimitInterval - time_since_last_request)]
       ELSE /\ rpc' = [rpc EXCEPT ![t] = "post"]
            /\ UNCHANGED wake_at
    /\ attempt_no' = [attempt_no EXCEPT ![t] = 0]
    /\ UNCHANGED <<clock, last_request_time, prev_start, last_start>>
    /\ RateFrame

\* time.sleep returns: after the rate limiting sleep or after a backoff
RlWake(t) ==
    /\ rpc[t] \in {"sleep", "backoff"}
    /\ clock >= wake_at[t]
    /\ rpc' = [rpc EXCEPT ![t] = "post"]
    /\ UNCHANGED <<clock, last_request_time, wake_at, attempt_no,
                   prev_start, last_start>>
    /\ RateFrame

\* line 351: requests.post starts an external request
RlPost(t) ==
    /\ rpc[t] = "post"
    /\ rpc' = [rpc EXCEPT ![t] = "wait"]
    /\ prev_start' = last_start
    /\ last_start' = clock
    /\ UNCHANGED <<clock, last_request_time, wake_at, attempt_no>>
    /\ RateFrame

\* lines 358-360: the response is good
RlOk(t) ==
    /\ rpc[t] = "wait"
    /\ last_request_time' = clock
    /\ rpc' = [rpc EXCEPT ![t] = "idle"]
    /\ UNCHANGED <<clock, wake_at, attempt_no, prev_start, last_start>>
    /\ RateFrame

\* lines 362-370: the request failed
RlFail(t) ==
    /\ rpc[t] = "wait"
    /\ IF attempt_no[t] < MaxRetries
       THEN /\ rpc' = [rpc EXCEPT ![t] = "backoff"]
            /\ wake_at' = [wake_at EXCEPT ![t] = clock + 2 ^ attempt_no[t]]
            /\ attempt_no' = [attempt_no EXCEPT ![t] = @ + 1]
       ELSE /\ rpc' = [rpc EXCEPT ![t] = "idle"]
            /\ UNCHANGED <<wake_at, attempt_no>>
    /\ UNCHANGED <<clock, last_request_time, prev_start, last_start>>
    /\ RateFrame

\* a second passes
RlTick ==
    /\ clock < RateLimitInterval + MaxElapsed
    /\ clock' = clock + 1
    /\ UNCHANGED <<last_request_time, rpc, wake_at, attempt_no,
                   prev_start, last_start>>
    /\ RateFrame

NextRate ==
    \/ \E t \in Callers :
        \/ RlEnter(t)
        \/ RlWake(t)
        \/ RlPost(t)
        \/ RlOk(t)
        \/ RlFail(t)
    \/ RlTick

SpecRate == InitRate /\ [][NextRate]_vars

\* C24: any two external requests start at least rate_limit_interval
\* seconds apart, whatever the number of calling threads.
RequestsStartIntervalApart ==
    prev_start # Absent => last_start - prev_start >= RateLimitInterval

(***************************************************************************)
(* SpecStats: self.translated_segments over one run of                     *)
(* translate_prepared_content.  Every worker adds the segments of its      *)
(* batch under self.lock; the rebuild loop of the main thread then calls   *)
(* _update_segment for every segment it applies, which adds one under the  *)
(* same lock.                                                              *)
(***************************************************************************)
\* len(original_texts) of a batch
BatchSegmentCount(bk, k) == Len(PreparedBatches(bk[k[1]])[k[2] + 1])

RECURSIVE SegmentsOf(_, _)
SegmentsOf(bk, S) ==
    IF S = {} THEN 0
    ELSE LET k == CHOOSE x \in S : TRUE
         IN  BatchSegmentCount(bk, k) + SegmentsOf(bk, S \ {k})

\* the batches whose worker returned True in this run
TranslatedInRun == {k \in Keys : sfut[k] \in {"ok", "collected"}}

InitStats ==
    /\ sbook \in Books
    /\ sdone \in SUBSET BatchFiles(sbook)
    /\ shtml \in SUBSET {i \in Items : \E k \in sdone : k[1] = i}
    /\ sfut = [k \in Keys |-> "none"]
    /\ sprocessed = [i \in Items |-> {}]
    /\ srebuilt = {}
    /\ translated_segments \in {0, SegmentsOf(sbook, sdone)}
    /\ spc = "start"
    /\ ckpt = NoCkpt /\ state = InitialState
    /\ DiskUnused /\ ProcUnused /\ HistUnused /\ DivUnused /\ StatRestUnused

StatFrame ==
    UNCHANGED <<diskVars, procVars, state, histVars, divVars, statRest,
                sbook, sdone, shtml>>

\* lines 175-201: the submit loop
StSubmit ==
    /\ spc = "start"
    /\ sprocessed' = [i \in Items |-> {k[2] : k \in {x \in sdone : x[1] = i}}]
    /\ sfut' = [k \in Keys |->
                   IF k \in BatchFiles(sbook) \ sdone THEN "running"
                   ELSE "none"]
    /\ spc' = "translate"
    /\ UNCHANGED <<srebuilt, translated_segments>>
    /\ StatFrame

\* _translate_prepared_batch: with self.lock the segments of the batch are
\* added and True is returned, or it fails before and returns False
StWorker(k) ==
    /\ spc = "translate" /\ sfut[k] = "running"
    /\ \/ /\ sfut' = [sfut EXCEPT ![k] = "ok"]
          /\ translated_segments' =
                translated_segments + BatchSegmentCount(sbook, k)
       \/ /\ sfut' = [sfut EXCEPT ![k] = "failed"]
          /\ UNCHANGED translated_segments
    /\ UNCHANGED <<sprocessed, srebuilt, spc>>
    /\ StatFrame

\* lines 205-240: the loop over as_completed(futures)
StCollect(k) ==
    /\ spc = "translate" /\ sfut[k] \in {"ok", "failed"}
    /\ IF sfut[k] = "ok"
       THEN /\ sfut' = [sfut EXCEPT ![k] = "collected"]
            /\ sprocessed' = [sprocessed EXCEPT ![k[1]] = @ \cup {k[2]}]
       ELSE /\ sfut' = [sfut EXCEPT ![k] = "dropped"]
            /\ UNCHANGED sprocessed
    /\ UNCHANGED <<srebuilt, translated_segments, spc>>
    /\ StatFrame

\* the pool is left when every future is collected
StPoolExit ==
    /\ spc = "translate"
    /\ \A k \in Keys : sfut[k] \in {"none", "collected", "dropped"}
    /\ spc' = "rebuild"
    /\ UNCHANGED <<sfut, sprocessed, srebuilt, translated_segments>>
    /\ StatFrame

\* lines 246-314: an item of processed_item_batches is loaded from its
\* translated.html, or rebuilt with _update_segment for every segment of
\* its batches
StRebuildItem(i) ==
    /\ spc = "rebuild"
    /\ sprocessed[i] # {} /\ i \notin srebuilt
    /\ srebuilt' = srebuilt \cup {i}
    /\ translated_segments' =
          IF i \in shtml THEN translated_segments
          ELSE translated_segments
                   + SegmentsOf(sbook, {<<i, b>> : b \in sprocessed[i]})
    /\ UNCHANGED <<sfut, sprocessed, spc>>
    /\ StatFrame

\* lines 412-427: the statistics are returned
StReturn ==
    /\ spc = "rebuild"
    /\ \A i \in Items : sprocessed[i] # {} => i \in srebuilt
    /\ spc' = "returned"
    /\ UNCHANGED <<sfut, sprocessed, srebuilt, translated_segments>>
    /\ StatFrame

NextStats ==
    \/ StSubmit
    \/ \E k \in Keys : StWorker(k) \/ StCollect(k)
    \/ StPoolExit
    \/ \E i \in Items : StRebuildItem(i)
    \/ StReturn

SpecStats == InitStats /\ [][NextStats]_vars

\* C25: when translate_prepared_content returns, translated_segments is the
\* number of segments of the batches translated in the run.
ReportedSegmentsCountedOnce ==
    spc = "returned"
        => translated_segments = SegmentsOf(sbook, TranslatedInRun)

(***************************************************************************)
(* SpecRebuild: the rebuild of an item in translate_prepared_content.  The *)
(* item is a sequence of paragraphs of one text node each; it was prepared *)
(* with one segment per batch.  The workers complete in any order; for     *)
(* every batch, in the order of sorted(batch_ids), the rebuild extracts    *)
(* the segments of the document as it is now and replaces those that the   *)
(* segment_indices of the batch name.                                      *)
(***************************************************************************)
MaxNodes == 3

\* a text node: its text, and the batch it is the translation of
Node(kind, by) == [text |-> kind, by |-> by]

RebuildDocs ==
    UNION {[1..n -> {Node(k, Absent) : k \in TextKinds}] : n \in 1..MaxNodes}

\* _extract_translatable_segments on paragraphs of one text node: the
\* positions of the nodes that should_skip_text lets through
RECURSIVE TranslatableNodes(_, _)
TranslatableNodes(doc, from) ==
    IF from > Len(doc) THEN <<>>
    ELSE (IF ShouldSkipText(doc[from].text) THEN <<>> ELSE <<from>>)
             \o TranslatableNodes(doc, from + 1)

\* segment_indices of batch b in the batch info of the item
RebuildSegmentIndices(b) == <<b>>

\* the batch ids of the prepared item
RebuildBatchIds(doc) == 0..(Len(TranslatableNodes(doc, 1)) - 1)

\* lines 304-308: the translations of one batch are applied to the segments
\* extracted from the document as it is now
RECURSIVE ApplySegments(_, _, _, _, _)
ApplySegments(doc, translatable_segments, seg_indices, translated_texts, idx) ==
    IF idx > Len(seg_indices) THEN doc
    ELSE LET seg_idx == seg_indices[idx]
             next == IF /\ idx <= Len(translated_texts)
                        /\ seg_idx < Len(translatable_segments)
                     THEN [doc EXCEPT ![translatable_segments[seg_idx + 1]] =
                              translated_texts[idx]]
                     ELSE doc
         IN  ApplySegments(next, translatable_segments, seg_indices,
                           translated_texts, idx + 1)

\* lines 284-312: the loop over the batches, in the order given
RECURSIVE ApplyBatches(_, _, _)
ApplyBatches(doc, files, ids) ==
    IF ids = <<>> THEN doc
    ELSE LET b == Head(ids)
             next == IF files[b] = <<>> THEN doc
                     ELSE ApplySegments(doc, TranslatableNodes(doc, 1),
                                        RebuildSegmentIndices(b), files[b], 1)
         IN  ApplyBatches(next, files, Tail(ids))

RECURSIVE SortedIds(_)
SortedIds(S) ==
    IF S = {} THEN <<>>
    ELSE LET m == CHOOSE x \in S : \A y \in S : x <= y
         IN  <<m>> \o SortedIds(S \ {m})

\* (mutant) the batches are applied in the order they completed
RebuildOrderAsCompleted(batch_ids) == batch_ids

\* line 284: sorted(batch_ids)
RebuildOrder(batch_ids) == SortedIds(Range(batch_ids))

RebuildDocument(doc, files, batch_ids) ==
    ApplyBatches(doc, files, RebuildOrder(batch_ids))

\* the orders in which the batches of a set can complete
OrdersOf(S) == {q \in [1..Cardinality(S) -> S] : Range(q) = S}

InitRebuild ==
    /\ rdoc \in RebuildDocs
    /\ rfiles = [b \in 0..(MaxNodes - 1) |-> <<>>]
    /\ rorder = <<>>
    /\ rpending = RebuildBatchIds(rdoc)
    /\ rbuilt = FALSE
    /\ rres = <<>>
    /\ ckpt = NoCkpt /\ state = InitialState
    /\ DiskUnused /\ ProcUnused /\ HistUnused /\ DivUnused /\ RebRestUnused

RebFrame ==
    UNCHANGED <<diskVars, procVars, state, histVars, divVars, rebRest, rdoc>>

\* a worker writes translated.txt and returns True; the collection loop
\* appends its batch id
RbComplete(b) ==
    /\ b \in rpending /\ ~rbuilt
    /\ \E kind \in TextKinds :
          rfiles' = [rfiles EXCEPT ![b] = <<Node(kind, b)>>]
    /\ rorder' = Append(rorder, b)
    /\ rpending' = rpending \ {b}
    /\ UNCHANGED <<rbuilt, rres>>
    /\ RebFrame

\* a worker returns False
RbFail(b) ==
    /\ b \in rpending /\ ~rbuilt
    /\ rpending' = rpending \ {b}
    /\ UNCHANGED <<rfiles, rorder, rbuilt, rres>>
    /\ RebFrame

\* lines 246-314 for the item
RbRebuild ==
    /\ rpending = {} /\ ~rbuilt /\ rorder # <<>>
    /\ rres' = RebuildDocument(rdoc, rfiles, rorder)
    /\ rbuilt' = TRUE
    /\ UNCHANGED <<rfiles, rorder, rpending>>
    /\ RebFrame

NextRebuild ==
    \/ \E b \in 0..(MaxNodes - 1) : RbComplete(b) \/ RbFail(b)
    \/ RbRebuild

SpecRebuild == InitRebuild /\ [][NextRebuild]_vars

\* C26: the rebuilt document is the one that every other completion order
\* of the same batches gives.
RebuiltSameForEveryOrder ==
    rbuilt => \A o \in OrdersOf(Range(rorder)) :
                  RebuildDocument(rdoc, rfiles, o) = rres

\* an item was rebuilt whose batches completed in an order that, applied
\* as it is, gives another document
RebuiltAfterOutOfOrderCompletion ==
    /\ rbuilt
    /\ rorder # SortedIds(Range(rorder))
    /\ ApplyBatches(rdoc, rfiles, rorder) # rres

(***************************************************************************)
(* The translation cache across processes (Spec).  translation_cache.json  *)
(* is written by _save_translation_cache at the end of                     *)
(* translate_prepared_content and read by the next process that loads a    *)
(* valid checkpoint.                                                       *)
(***************************************************************************)
\* the translation of t was obtained by an earlier process: a batch that
\* was translation_completed when this process started, and still is,
\* holds it
ObtainedBeforeStart(t) ==
    \E b \in Batches :
        /\ startStatus[b] = "true" /\ statusFile[b] = "true"
        /\ startFiles[b].exists
        /\ \E k \in 1..Len(startFiles[b].texts) :
              /\ k <= Len(BatchTexts(b))
              /\ BatchTexts(b)[k] = t
              /\ startFiles[b].texts[k] = Translation(t)

\* the texts the worker of batch b is about to send to the collaborator
AboutToSend(b) ==
    IF wpc[b] = "translate" /\ api_enabled
    THEN Range(TranslatorMisses(translator_cache, wlocal[b].todo))
    ELSE {}

\* C27: a process that resumed from a checkpoint without force_restart
\* never sends a text whose translation an earlier process had obtained.
ResumedRunDoesNotResend ==
    \A b \in Batches :
        (loaded /\ ~force) =>
            \A t \in AboutToSend(b) : ~ObtainedBeforeStart(t)

\* a dictionary keeps every key it has, with the value it has
KeepsEntries(before, after) ==
    \A t \in DOMAIN before : t \in DOMAIN after /\ after[t] = before[t]

\* C28: no step changes or removes the value of a key of the translation
\* cache of the processor or of the cache of the translator.
CacheEntriesNeverChange ==
    [][/\ KeepsEntries(translation_cache, translation_cache')
       /\ KeepsEntries(translator_cache, translator_cache')]_vars

(***************************************************************************)
(* Duplicates within one batch (SpecCache).                                *)
(***************************************************************************)
\* how many times the text occurs in a list of texts
Occurrences(t, q) == Cardinality({i \in 1..Len(q) : q[i] = t})

\* how many times the text is carried by the requests of one dispatch
RECURSIVE SentCount(_, _)
SentCount(t, reqs) ==
    IF reqs = <<>> THEN 0
    ELSE Occurrences(t, Head(reqs)) + SentCount(t, Tail(reqs))

\* C29: a text that occurs several times in a batch and is not cached is
\* carried once by the requests of the batch, and its occurrences are given
\* the same translation.
DuplicateSentOnce ==
    [][(lastOp' = "dispatch" /\ api_enabled) =>
        \A o \in ApiChoices(api_enabled) :
          \A os \in FallbackOutcomes(o,
                        Len(TranslationsToDo(translation_cache, lastReq'))) :
            LET d == DispatchBatch(translation_cache, translator_cache,
                                   lastReq', o, os, api_enabled)
            IN  (/\ d.all = lastResult'
                 /\ d.pcache = translation_cache'
                 /\ d.tcache = translator_cache')
                => \A t \in Range(lastReq') :
                      (/\ Occurrences(t, lastReq') > 1
                       /\ t \notin DOMAIN translation_cache)
                      => /\ SentCount(t, d.requests) <= 1
                         /\ \A i, j \in 1..Len(lastReq') :
                               (lastReq'[i] = t /\ lastReq'[j] = t)
                                   => lastResult'[i] = lastResult'[j]]_vars

(***************************************************************************)
(* SpecRetry: the external calls for the texts of one batch.               *)
(* _translate_prepared_batch calls translate_batch, whose one request      *)
(* _make_api_request attempts max_retries + 1 times; when it raises, the   *)
(* fallback loop calls translate_text for every text, and each call goes   *)
(* through _make_api_request again; a text whose call raises keeps the     *)
(* original.                                                               *)
(***************************************************************************)
MaxRetryTexts == 3
RetryTexts == 1..MaxRetryTexts

InitRetry ==
    /\ max_retries \in 0..MaxRetries
    /\ rn \in RetryTexts
    /\ rstage = "batch"
    /\ rattempt = 0
    /\ rpos = 1
    /\ attempts = [i \in RetryTexts |-> 0]
    /\ all_failed = [i \in RetryTexts |-> TRUE]
    /\ output = [i \in RetryTexts |-> "none"]
    /\ ckpt = NoCkpt /\ state = InitialState
    /\ DiskUnused /\ ProcUnused /\ HistUnused /\ DivUnused /\ RetryRestUnused

RetryFrame ==
    UNCHANGED <<diskVars, procVars, state, histVars, divVars, retryRest,
                max_retries, rn>>

\* translate_batch: an attempt of the batch request succeeds
RtBatchOk ==
    /\ rstage = "batch"
    /\ attempts' = [i \in RetryTexts |->
                       IF i <= rn THEN attempts[i] + 1 ELSE attempts[i]]
    /\ all_failed' = [i \in RetryTexts |-> IF i <= rn THEN FALSE
                                           ELSE all_failed[i]]
    /\ output' = [i \in RetryTexts |-> IF i <= rn THEN "translated"
                                       ELSE output[i]]
    /\ rstage' = "done"
    /\ UNCHANGED <<rattempt, rpos>>
    /\ RetryFrame

\* translate_batch: an attempt of the batch request fails; after the last
\* one _make_api_request raises and the fallback loop starts
RtBatchFail ==
    /\ rstage = "batch"
    /\ attempts' = [i \in RetryTexts |->
                       IF i <= rn THEN attempts[i] + 1 ELSE attempts[i]]
    /\ IF rattempt < max_retries
       THEN /\ rattempt' = rattempt + 1
            /\ UNCHANGED rstage
       ELSE /\ rattempt' = 0
            /\ rstage' = "fallback"
    /\ UNCHANGED <<rpos, all_failed, output>>
    /\ RetryFrame

\* the end of an iteration of the fallback loop
AfterText(p) == IF p = rn THEN "done" ELSE "fallback"

\* translate_text in the fallback loop: an attempt succeeds
RtTextOk ==
    /\ rstage = "fallback"
    /\ attempts' = [attempts EXCEPT ![rpos] = @ + 1]
    /\ all_failed' = [all_failed EXCEPT ![rpos] = FALSE]
    /\ output' = [output EXCEPT ![rpos] = "translated"]
    /\ rstage' = AfterText(rpos)
    /\ rpos' = IF rpos = rn THEN rpos ELSE rpos + 1
    /\ rattempt' = 0
    /\ RetryFrame

\* translate_text in the fallback loop: an attempt fails; after the last
\* one the original text is appended
RtTextFail ==
    /\ rstage = "fallback"
    /\ attempts' = [attempts EXCEPT ![rpos] = @ + 1]
    /\ IF rattempt < max_retries
       THEN /\ rattempt' = rattempt + 1
            /\ UNCHANGED <<rstage, rpos, output>>
       ELSE /\ rattempt' = 0
            /\ output' = [output EXCEPT ![rpos] = "original"]
            /\ rstage' = AfterText(rpos)
            /\ rpos' = IF rpos = rn THEN rpos ELSE rpos + 1
    /\ UNCHANGED all_failed
    /\ RetryFrame

NextRetry ==
    \/ RtBatchOk
    \/ RtBatchFail
    \/ RtTextOk
    \/ RtTextFail

SpecRetry == InitRetry /\ [][NextRetry]_vars

\* C30: a text whose external calls all failed was attempted at most
\* max_retries + 1 times, and the batch gives its original text.
AttemptsWithinMaxRetries ==
    \A i \in 1..rn :
        (rstage = "done" /\ all_failed[i])
            => /\ attempts[i] <= max_retries + 1
               /\ output[i] = "original"

(***************************************************************************)
(* The termination signal (Spec).  _handle_termination saves the state of  *)
(* the checkpoint manager; the counters of the processor reach that state  *)
(* only through update_translation_phase in the collection loop.           *)
(***************************************************************************)
\* C31: the checkpoint saved by the signal handler holds the
\* translated_segments and translated_chars the processor has in memory
\* when the signal arrives.
InterruptSavesCounters ==
    [][(pc \in InTranslation /\ pc' = "exiting") =>
          /\ ckpt'.readable
          /\ ckpt'.state.translated_segments = counters.translated_segments
          /\ ckpt'.state.translated_chars = counters.translated_chars]_vars

\* every phase of the checkpoint state is completed and the progress is 100
TerminalState(s) ==
    /\ s.terminology_completed
    /\ s.preprocessing_completed
    /\ s.translation_completed
    /\ s.postprocessing_completed
    /\ RatLeq(RatInt(FullProgress), s.total_progress)

\* C32: when translate_prepared_content has marked postprocessing completed
\* and returns, the checkpoint state is terminal.
FinishedJobIsTerminal ==
    [][(pc = "postprocess" /\ pc' = "returned") =>
          /\ TerminalState(state')
          /\ ckpt'.readable /\ TerminalState(ckpt'.state)]_vars

(***************************************************************************)
(* SpecPrepare: step 4 of extract_and_prepare_content.  For every item     *)
(* _extract_translatable_segments appends the segments and adds each of    *)
(* them to self.total_segments and self.total_chars; the loop then adds    *)
(* the number of segments to a local total and their characters to         *)
(* self.total_chars; update_translation_phase saves the local total and    *)
(* self.total_chars.                                                       *)
(***************************************************************************)
MaxSegChars == 2
PrepItems == 1..2

PrepBooks ==
    [PrepItems -> UNION {[1..n -> 1..MaxSegChars] : n \in 0..2}]

RECURSIVE SumSeq(_)
SumSeq(q) == IF q = <<>> THEN 0 ELSE Head(q) + SumSeq(Tail(q))

NotPersisted == [saved |-> FALSE, total_chars |-> 0, total_segments |-> 0]

InitPrepare ==
    /\ pbook \in PrepBooks
    /\ pitem = 1
    /\ pseg = 0
    /\ total_chars = 0
    /\ total_segments = 0
    /\ segments_sum = 0
    /\ persisted = NotPersisted
    /\ ckpt = NoCkpt /\ state = InitialState
    /\ DiskUnused /\ ProcUnused /\ HistUnused /\ DivUnused /\ PrepRestUnused

PrepFrame ==
    UNCHANGED <<diskVars, procVars, state, histVars, divVars, prepRest,
                pbook>>

\* _extract_translatable_segments appends a segment: with self.lock,
\* total_segments += 1 and total_chars += len(text)
PrAppendSegment ==
    /\ pitem \in PrepItems
    /\ pseg < Len(pbook[pitem])
    /\ pseg' = pseg + 1
    /\ total_segments' = total_segments + 1
    /\ total_chars' = total_chars + pbook[pitem][pseg + 1]
    /\ UNCHANGED <<pitem, segments_sum, persisted>>
    /\ PrepFrame

\* lines 208-213: the segments are returned, total_segments += len(...),
\* self.total_chars += segment_chars
PrItemCounted ==
    /\ pitem \in PrepItems
    /\ pseg = Len(pbook[pitem])
    /\ segments_sum' = segments_sum + Len(pbook[pitem])
    /\ total_chars' = total_chars + SumSeq(pbook[pitem])
    /\ pitem' = pitem + 1
    /\ pseg' = 0
    /\ UNCHANGED <<total_segments, persisted>>
    /\ PrepFrame

\* lines 291-306: update_translation_phase(total_segments=total_segments,
\* total_chars=self.total_chars, ...)
PrPersist ==
    /\ pitem \notin PrepItems
    /\ ~persisted.saved
    /\ persisted' = [saved |-> TRUE, total_chars |-> total_chars,
                     total_segments |-> segments_sum]
    /\ UNCHANGED <<pitem, pseg, total_chars, total_segments, segments_sum>>
    /\ PrepFrame

NextPrepare ==
    \/ PrAppendSegment
    \/ PrItemCounted
    \/ PrPersist

SpecPrepare == InitPrepare /\ [][NextPrepare]_vars

\* the characters and the number of the segments of the book
BookChars == SumSeq([i \in PrepItems |-> SumSeq(pbook[i])])
BookSegments == SumSeq([i \in PrepItems |-> Len(pbook[i])])

\* C33: the persisted total_chars is the sum of the lengths of the
\* extracted segments and total_segments is their number.
PersistedTotalsCountOnce ==
    persisted.saved =>
        /\ persisted.total_chars = BookChars
        /\ persisted.total_segments = BookSegments


(***************************************************************************)
(* C34, on SpecCheckpoint.  translate_prepared_content calls               *)
(* check_existing_checkpoint and, when it answers (True, False), calls     *)
(* clear_checkpoint next; the two calls are the steps CkCheckExisting and  *)
(* CkClearCheckpoint taken one after the other.                            *)
(***************************************************************************)
\* check_existing_checkpoint has just rejected a checkpoint of the same
\* input for the one reason that the batch division is marked complete and
\* <workdir>/batches holds no file
RejectedForMissingBatchFiles ==
    /\ lastOp = "check_existing_checkpoint"
    /\ lastResult = <<TRUE, FALSE>>
    /\ ckpt.exists /\ ckpt.readable /\ ckpt.hash = inputHash
    /\ workfiles.batches_dir
    /\ ckpt.local_processing["batch_division_completed"]
    /\ NoBatchFiles(workfiles)

\* C34: when the checkpoint found has its batch division marked complete
\* and the batch files are missing, the handling that follows keeps the
\* completion records of the other steps and of the translated batches:
\* status.json with its other step flags and its completed batches, and
\* the batch status files.
MissingBatchFilesKeepsOtherRecords ==
    [][(RejectedForMissingBatchFiles /\ lastOp' = "clear_checkpoint") =>
          /\ ckpt'.exists
          /\ ckpt'.local_processing["parsing_completed"]
                = ckpt.local_processing["parsing_completed"]
          /\ ckpt'.state.completed_batches = ckpt.state.completed_batches
          /\ statusFile' = statusFile]_vars

\* the case of C34 with something to lose: a batch recorded as translated
RejectedWithTranslatedBatch ==
    /\ RejectedForMissingBatchFiles
    /\ ckpt.state.completed_batches # <<>>
    /\ \E b \in Batches : statusFile[b] = "true"


\* a worker of translate_prepared_content calls translate_batch
Dispatching == \E b \in Batches : wpc[b] = "translate" /\ wpc'[b] # "translate"

\* the placeholder is the text of a segment in a translated.txt
PlaceholderWritten ==
    \E b \in Batches : InSeq(Placeholder, translatedFile[b].texts)

\* the placeholder is the translation of a text in the processor's cache
PlaceholderCached ==
    \E t \in DOMAIN translation_cache : translation_cache[t] = Placeholder

\* C35: a batch is dispatched to the translator only with the API enabled,
\* and the placeholder answer of the disabled API is neither written as the
\* translated text of a batch nor stored in the cache.
DispatchOnlyWithApiEnabled ==
    [][/\ Dispatching => api_enabled
       /\ ~PlaceholderWritten' /\ ~PlaceholderCached']_vars


\* the keys of completed_batches, and whether one occurs twice
BatchKeys(q) == {q[i] : i \in 1..Len(q)}
NoDuplicates(q) == \A i, j \in 1..Len(q) : q[i] = q[j] => i = j

\* C36: after every checkpoint update during translation, batches_completed
\* is the number of distinct keys of completed_batches, and
\* completed_batches holds no key twice.
BatchesCompletedCountsKeys ==
    [][(pc \in InTranslation /\ ckpt' # ckpt /\ ckpt'.readable) =>
          /\ ckpt'.state.batches_completed
                = Cardinality(BatchKeys(ckpt'.state.completed_batches))
          /\ NoDuplicates(ckpt'.state.completed_batches)]_vars

\* the half of C36 that holds: completed_batches holds no key twice
CompletedBatchesNoDuplicates ==
    [][(pc \in InTranslation /\ ckpt' # ckpt /\ ckpt'.readable) =>
          NoDuplicates(ckpt'.state.completed_batches)]_vars


(***************************************************************************)
(* SpecGiveUp: the dispatcher of one process after the other, run without  *)
(* interleaving.  A process calls the dispatcher for batches of texts,     *)
(* with every pattern of API failures, and ends by saving the cache; a new *)
(* process can be started at any point and reloads translation_cache.json  *)
(* when it finds a valid checkpoint.                                       *)
(***************************************************************************)
\* the texts of todo that the fallback loop gave up: translate_batch raised
\* and so did every translate_text call made for the text
GivenUp(tcache, todo, outcome, outcomes, enabled) ==
    IF ~TranslateBatch(tcache, todo, outcome, enabled).raised THEN {}
    ELSE {t \in Range(todo) :
             /\ ~IsBlank(t) /\ t \notin DOMAIN tcache
             /\ \A k \in 1..Len(todo) : todo[k] = t => outcomes[k] = "raise"}

\* the texts the callers of SpecGiveUp ask for
GiveTexts == {"a", "b"}

InitGiveUp ==
    /\ pc = "running" /\ runs = 1 /\ phase = "translate" /\ force = FALSE
    /\ loaded = FALSE
    /\ translation_cache = EmptyMap /\ translator_cache = EmptyMap
    /\ api_enabled = FALSE /\ counters = NoCounters
    /\ nextSubmit = 1 /\ submitted = {} /\ collected = {}
    /\ completed_count = 0 /\ processed = {}
    /\ wpc = [b \in Batches |-> "none"]
    /\ wlocal = [b \in Batches |-> NoLocal]
    /\ gave_up = {} /\ gave_up_saved = {}
    /\ ckpt = NoCkpt /\ state = InitialState
    /\ DiskUnused /\ HistUnused /\ DivUnused /\ GiveRestUnused

GiveFrame ==
    UNCHANGED <<ckpt, statusFile, translatedFile, state, divVars, giveRest,
                phase, force, counters, nextSubmit, submitted, collected,
                completed_count, processed, wpc, wlocal, startStatus,
                startFiles, startPrepared, prev, served>>

\* enable_api
GuEnableApi ==
    /\ pc = "running" /\ ~api_enabled
    /\ api_enabled' = TRUE
    /\ lastOp' = "enable_api" /\ lastReq' = <<>> /\ lastResult' = <<>>
    /\ UNCHANGED <<pc, runs, loaded, translation_cache, translator_cache,
                   cacheFile, apiCalls, gave_up, gave_up_saved>>
    /\ GiveFrame

\* _translate_prepared_batch / _translate_batch for the texts ts
GuDispatch ==
    /\ pc = "running"
    /\ \E ts \in SeqsUpTo(GiveTexts, MaxBatchLen),
          o \in ApiChoices(api_enabled) :
         \E os \in FallbackOutcomes(o,
                       Len(TranslationsToDo(translation_cache, ts))) :
            LET todo == TranslationsToDo(translation_cache, ts)
                d == DispatchBatch(translation_cache, translator_cache, ts,
                                   o, os, api_enabled)
            IN  /\ apiCalls' = CountCalls(apiCalls, d.requests)
                /\ WithinCalls(apiCalls')
                /\ translator_cache' = d.tcache
                /\ translation_cache' = d.pcache
                /\ gave_up' = gave_up \cup
                      GivenUp(translator_cache, todo, o, os, api_enabled)
                /\ lastOp' = "dispatch"
                /\ lastReq' = ts
                /\ lastResult' = d.all
    /\ UNCHANGED <<pc, runs, loaded, api_enabled, cacheFile, gave_up_saved>>
    /\ GiveFrame

\* the end of the run: _save_translation_cache, which returns at once for
\* an empty cache
GuSaveCache ==
    /\ pc = "running"
    /\ pc' = "ended"
    /\ IF translation_cache = EmptyMap
       THEN UNCHANGED <<cacheFile, gave_up_saved>>
       ELSE /\ cacheFile' = [exists |-> TRUE, cache |-> translation_cache]
            /\ gave_up_saved' = gave_up
    /\ lastOp' = "save" /\ lastReq' = <<>> /\ lastResult' = <<>>
    /\ UNCHANGED <<runs, loaded, api_enabled, translation_cache,
                   translator_cache, apiCalls, gave_up>>
    /\ GiveFrame

\* a new process, after the end of the last one or after its kill: a new
\* translator with the API disabled, and translation_cache.json loaded when
\* the checkpoint is found valid
GuNewProcess ==
    /\ runs < MaxRuns
    /\ runs' = runs + 1
    /\ pc' = "running"
    /\ \E valid \in BOOLEAN :
          /\ loaded' = valid
          /\ translation_cache' =
                IF valid /\ cacheFile.exists THEN cacheFile.cache
                ELSE EmptyMap
          /\ gave_up' = IF valid /\ cacheFile.exists THEN gave_up_saved
                        ELSE {}
    /\ translator_cache' = EmptyMap
    /\ api_enabled' = FALSE
    /\ lastOp' = "start" /\ lastReq' = <<>> /\ lastResult' = <<>>
    /\ UNCHANGED <<cacheFile, apiCalls, gave_up_saved>>
    /\ GiveFrame

NextGiveUp ==
    \/ GuEnableApi
    \/ GuDispatch
    \/ GuSaveCache
    \/ GuNewProcess

SpecGiveUp == InitGiveUp /\ [][NextGiveUp]_vars

MaxApiRetries == 2   \* the largest max_retries of SpecRequest
\* what an attempt meets: a response with a status, or no response at all
Answers == {"200", "429", "500", "no_response"}
NoValue == "none"
NoneResult == "None"

InitRequest ==
    /\ req_mode = "sync"
    /\ req_pc = "idle"
    /\ req_attempt = 0
    /\ req_max_retries \in 0..MaxApiRetries
    /\ req_answers = <<>>
    /\ req_result = NoValue
    /\ ckpt = NoCkpt /\ state = InitialState
    /\ DiskUnused /\ ProcUnused /\ HistUnused /\ DivUnused /\ ReqRestUnused

ReqFrame ==
    UNCHANGED <<diskVars, procVars, state, histVars, divVars, reqRest,
                req_max_retries>>

\* the call, up to the retry loop; while the API is disabled the call
\* returns the placeholder response at once
RqCall ==
    /\ req_pc = "idle"
    /\ \E m \in {"sync", "async"}, enabled \in BOOLEAN :
          /\ req_mode' = m
          /\ req_pc' = IF enabled THEN "attempt" ELSE "returned"
          /\ req_result' = IF enabled THEN NoValue ELSE "response"
    /\ req_attempt' = 0
    /\ req_answers' = <<>>
    /\ ReqFrame

\* _make_api_request, one round of the loop: raise_for_status raises for
\* every status but 200, and every RequestException is retried while
\* attempt < max_retries and raised otherwise
SyncAttempt(answer) ==
    IF answer = "200"
    THEN [pc |-> "returned", result |-> "response"]
    ELSE IF req_attempt < req_max_retries
    THEN [pc |-> "sleep", result |-> NoValue]
    ELSE [pc |-> "raised", result |-> "error"]

\* _make_api_request_async, one round of the loop: status 429 sleeps and
\* continues, whatever the attempt; the other failures are handled as in
\* the synchronous loop
AsyncAttempt(answer) ==
    IF answer = "200"
    THEN [pc |-> "returned", result |-> "response"]
    ELSE IF answer = "429"
    THEN [pc |-> "sleep", result |-> NoValue]
    ELSE IF req_attempt < req_max_retries
    THEN [pc |-> "sleep", result |-> NoValue]
    ELSE [pc |-> "raised", result |-> "error"]

RqAttempt ==
    /\ req_pc = "attempt"
    /\ \E answer \in Answers :
          LET r == IF req_mode = "sync" THEN SyncAttempt(answer)
                   ELSE AsyncAttempt(answer)
          IN  /\ req_answers' = Append(req_answers, answer)
              /\ req_pc' = r.pc
              /\ req_result' = r.result
    /\ UNCHANGED <<req_mode, req_attempt>>
    /\ ReqFrame

\* the sleep is over and the loop goes to its next round; after the last
\* round the function ends without a return statement
RqNextRound ==
    /\ req_pc = "sleep"
    /\ req_attempt' = req_attempt + 1
    /\ IF req_attempt + 1 <= req_max_retries
       THEN req_pc' = "attempt" /\ req_result' = NoValue
       ELSE req_pc' = "returned" /\ req_result' = NoneResult
    /\ UNCHANGED <<req_mode, req_answers>>
    /\ ReqFrame

\* the caller goes on
RqDone ==
    /\ req_pc \in {"returned", "raised"}
    /\ req_pc' = "idle"
    /\ UNCHANGED <<req_mode, req_attempt, req_answers, req_result>>
    /\ ReqFrame

NextRequest ==
    \/ RqCall
    \/ RqAttempt
    \/ RqNextRound
    \/ RqDone

SpecRequest == InitRequest /\ [][NextRequest]_vars

\* C38: a call of _make_api_request or _make_api_request_async that returns
\* returns a response, never nothing, whatever the API answered.
RequestReturnsResponseOrRaises ==
    req_pc = "returned" => req_result = "response"

\* the synchronous half of C38
SyncRequestReturnsResponseOrRaises ==
    (req_mode = "sync" /\ req_pc = "returned") => req_result = "response"


(***************************************************************************)
(* C39, on SpecDivider.                                                    *)
(***************************************************************************)
\* segs[i:i + bs] for i in range(0, len(segs), bs)
FixedChunks(segs, bs) ==
    LET n == Len(segs)
        count == (n + bs - 1) \div bs
    IN  [b \in 1..count |->
            SubSeq(segs, (b - 1) * bs + 1,
                   IF b * bs < n THEN b * bs ELSE n)]

NoNoneText(segs) == \A k \in 1..Len(segs) : segs[k].text # NoneSeq

====
